---- MODULE Spec2Model ----
(***************************************************************************)
(* Model of the Bookmark Knowledge Base enrichers:                         *)
(*   shared/title_utils.py        (truncate_title)                         *)
(*   tests/unit/test_notification_logic.py (is_error, the notifier rule)   *)
(*   webpage-enricher/main.py     (token cache, podcast chain, handler)    *)
(*   video-enricher/main.py       (download chains, handler)               *)
(* Strings that the code inspects character by character are sequences of  *)
(* one-character strings; other texts are abstracted to the classes the    *)
(* code distinguishes (None, empty, non-empty).                            *)
(***************************************************************************)
EXTENDS Integers, Sequences, FiniteSets, TLC

VARIABLES
    \* ---- truncate_title(title, max_length) ----
    t_pc,          \* "input" | "done"
    t_title,       \* the argument title
    t_max,         \* the argument max_length
    t_result,      \* the returned pair [title, was_truncated]
    \* ---- is_error(response, status_code) ----
    n_pc,          \* "input" | "done"
    n_response,    \* the response inspected by the notifier
    n_status,      \* the HTTP status code
    n_notify,      \* the returned decision
    \* ---- get_spotify_access_token() under concurrent invocations ----
    spotify_token_cache,  \* _spotify_token_cache: token, expires_at
    k_pc,          \* position of each thread inside the function
    k_local,       \* locals of each thread's invocation
    k_now,         \* time.time(), in seconds
    k_creds,       \* SPOTIFY_CLIENT_ID and SPOTIFY_CLIENT_SECRET are set
    k_issued,      \* number of tokens the auth server has issued
    k_calls,       \* invocations started so far
    k_exp_owner,   \* history: the token whose invocation wrote expires_at
    \* ---- enrich_webpage(request) ----
    w_pc,          \* position inside the handler
    w_req,         \* the request: method, url class, options.skip_ai
    w_gemini_key,  \* GEMINI_API_KEY is configured
    w_spotify,     \* spotify_data, the result of fetch_spotify_episode
    w_ai_error,    \* ai_result carries an error
    w_transcription,        \* transcription
    w_transcription_error,  \* transcription_error
    w_page,        \* generic path: fetch failure, content type, titles
    w_calls,       \* history: the external stages called, in order
    w_response,    \* the (body, status) pair returned
    w_notify,      \* the notifier's decision on the response
    \* ---- download_and_store(request), the video enricher ----
    v_pc,          \* position in the handler
    v_req,         \* the request: method, url class, flags
    v_search,      \* YouTube search: round (1 with show name, 2 title only)
    v_attempts,    \* history: every source attempted by download_video, with outcome
    v_carried,     \* the attempts whose outcome the raised failure or the result carries
    v_info,        \* video_info, the result of download_video
    v_transcription,  \* response['transcription']
    v_gemini,      \* response['gemini_analysis']
    v_response,    \* the (body, status) pair returned
    \* ---- sanitize_title(title), applied twice ----
    s_pc,          \* "input" | "once" | "done"
    s_title,       \* the argument title
    s_once,        \* sanitize_title(title)
    s_twice,       \* sanitize_title(sanitize_title(title))
    \* ---- parse_gemini_analysis and validate_analysis_sections on a text ----
    a_pc,            \* "input" | "parsed" | "twin_parsed" | "done"
    a_choice,        \* for each required section, the header and content written
    a_format,        \* "icon" | "legacy" | "heading" | "none"
    a_sections,      \* parse_gemini_analysis of the text
    a_twin_sections, \* parse_gemini_analysis of the same content in the twin format
    a_result,        \* validate_analysis_sections of the text
    \* ---- detect_content_type(url, soup) ----
    d_pc,          \* "input" | "done"
    d_url,         \* the URL: its host and the rest
    d_soup,        \* the parsed page, or NoSoup
    d_type,        \* the tag returned
    \* ---- find_episode_in_rss(rss_url, episode_title, duration_minutes) ----
    r_pc,          \* "input" | "done"
    r_feed,        \* feed.entries
    r_duration,    \* duration_minutes, Unknown for None
    r_result,      \* the dict returned
    \* ---- validate_title_quality(title) and validate_title(title) ----
    q_pc,          \* "input" | "scored" | "done"
    q_title,       \* the title: its words and whether it is padded with spaces
    q_quality,     \* the dict returned by validate_title_quality
    q_validation,  \* the dict returned by validate_title
    \* ---- the yt-dlp search results of search_youtube_for_podcast ----
    c_pc,          \* "input" | "done"
    c_entries,     \* results['entries']
    c_url          \* the entry whose URL is returned, NoCandidate for None

titleVars == <<t_pc, t_title, t_max, t_result>>
notifyVars == <<n_pc, n_response, n_status, n_notify>>
tokenVars == <<spotify_token_cache, k_pc, k_local, k_now, k_creds, k_issued, k_calls,
              k_exp_owner>>

webVars == <<w_pc, w_req, w_gemini_key, w_spotify, w_ai_error, w_transcription,
            w_transcription_error, w_page, w_calls, w_response, w_notify>>

vidVars == <<v_pc, v_req, v_search, v_attempts, v_carried, v_info, v_transcription,
            v_gemini, v_response>>

sanVars == <<s_pc, s_title, s_once, s_twice>>

\* the state of the pure functions checked on their own
anaVars == <<a_pc, a_choice, a_format, a_sections, a_twin_sections, a_result>>

detVars == <<d_pc, d_url, d_soup, d_type>>

rssVars == <<r_pc, r_feed, r_duration, r_result>>

qualVars == <<q_pc, q_title, q_quality, q_validation>>

scrVars == <<c_pc, c_entries, c_url>>

extraVars == <<qualVars, scrVars>>

pureVars == <<sanVars, anaVars, detVars, rssVars, extraVars>>

vars == <<titleVars, notifyVars, tokenVars, webVars, vidVars, pureVars>>

\* ------------------------------------------------------------------------
\* Bounds of the model
\* ------------------------------------------------------------------------
MaxTitleLen == 5      \* longest input title
MaxLimit == 5         \* largest max_length tried
MaxErrors == 2        \* longest errors array handed to is_error
MaxCalls == 3         \* invocations of get_spotify_access_token
MaxTicks == 3         \* clock ticks
MaxHandlerTicks == 1  \* clock ticks while a handler is inside the token function
MaxBadSections == 2   \* analysis sections that are missing or empty
MaxSanLen == 4        \* longest input of sanitize_title
MaxCodeBlocks == 4    \* most pre/code elements of a page
MaxEntries == 2       \* most entries of an RSS feed
MaxWords == 2         \* most words of a title handed to the validators
MaxCandidates == 3    \* most entries of a yt-dlp search

\* ------------------------------------------------------------------------
\* Python string helpers
\* ------------------------------------------------------------------------
Min(a, b) == IF a <= b THEN a ELSE b
Max(a, b) == IF a >= b THEN a ELSE b

Letters == {"a", "b"}
\* the characters str.split() and str.rstrip() treat as whitespace; "NBSP" is
\* the one character U+00A0
Whitespace == {" ", "\t", "NBSP"}
TitleChars == Letters \cup Whitespace
Ellipsis == <<".", ".", ".">>

\* s[:n] with Python's slice rule (a negative n counts from the end)
PyPrefix(s, n) ==
    IF n >= 0 THEN SubSeq(s, 1, Min(n, Len(s)))
    ELSE SubSeq(s, 1, Max(Len(s) + n, 0))

\* s.rfind(c): 0-based index of the last c, or -1
RFind(s, c) ==
    IF \E i \in 1..Len(s) : s[i] = c
    THEN (CHOOSE i \in 1..Len(s) : s[i] = c /\ \A j \in (i+1)..Len(s) : s[j] # c) - 1
    ELSE -1

\* s.rstrip()
RECURSIVE RStrip(_)
RStrip(s) ==
    IF s # <<>> /\ s[Len(s)] \in Whitespace THEN RStrip(SubSeq(s, 1, Len(s) - 1)) ELSE s

\* length of the leading run of non-whitespace characters
RECURSIVE WordLen(_)
WordLen(s) ==
    IF s = <<>> \/ Head(s) \in Whitespace THEN 0 ELSE 1 + WordLen(Tail(s))

\* s.split(): the words between runs of whitespace
RECURSIVE Split(_)
Split(s) ==
    IF s = <<>> THEN <<>>
    ELSE IF Head(s) \in Whitespace THEN Split(Tail(s))
    ELSE <<SubSeq(s, 1, WordLen(s))>> \o Split(SubSeq(s, WordLen(s) + 1, Len(s)))

\* ' '.join(words)
RECURSIVE Join(_)
Join(words) ==
    IF words = <<>> THEN <<>>
    ELSE IF Len(words) = 1 THEN words[1]
    ELSE words[1] \o <<" ">> \o Join(Tail(words))

\* ' '.join(title.split())
CollapseWhitespace(s) == Join(Split(s))

\* ------------------------------------------------------------------------
\* shared/title_utils.py
\* ------------------------------------------------------------------------
MAX_TITLE_LENGTH == 70

\* A variant that searches the space in title[:max_length+1], i.e. at or
\* before index max_length.
truncate_title_at_or_before(title, max_length) ==
    IF title = <<>> THEN [title |-> <<>>, was_truncated |-> FALSE]
    ELSE LET t == CollapseWhitespace(title)
             truncated == PyPrefix(t, max_length + 1)
             last_space == RFind(truncated, " ")
         IN  IF Len(t) <= max_length THEN [title |-> t, was_truncated |-> FALSE]
             ELSE IF last_space = -1
                  THEN [title |-> PyPrefix(t, max_length - 3) \o Ellipsis,
                        was_truncated |-> TRUE]
                  ELSE [title |-> RStrip(PyPrefix(truncated, last_space)),
                        was_truncated |-> TRUE]

truncate_title(title, max_length) ==
    IF title = <<>> THEN [title |-> <<>>, was_truncated |-> FALSE]
    ELSE LET t == CollapseWhitespace(title)
             truncated == PyPrefix(t, max_length)
             last_space == RFind(truncated, " ")
         IN  IF Len(t) <= max_length THEN [title |-> t, was_truncated |-> FALSE]
             ELSE IF last_space = -1
                  THEN [title |-> PyPrefix(t, max_length - 3) \o Ellipsis,
                        was_truncated |-> TRUE]
                  ELSE [title |-> RStrip(PyPrefix(truncated, last_space)),
                        was_truncated |-> TRUE]

\* ---- sanitize_title ----
\* characters as one-character strings; "NUL" is U+0000 and "NEL" is U+0085
\* [\x00-\x1f\x7f-\x9f]: the tab and NEL are whitespace and control at once
ControlChars == {"NUL", "\t", "NEL"}
Alnum == Letters \cup {"1"}
SafePunctuation == {".", ",", "!", "?", "-", ":", ";", "'", "\"", "(", ")", "[", "]"}
SanitizeChars == {"NUL", "\t", "a", "1", " ", "NBSP", ".", "@"}

\* re.sub(r'[\x00-\x1f\x7f-\x9f]', '', title)
RECURSIVE RemoveControl(_)
RemoveControl(s) ==
    IF s = <<>> THEN <<>>
    ELSE (IF Head(s) \in ControlChars THEN <<>> ELSE <<Head(s)>>) \o RemoveControl(Tail(s))

\* ''.join(c for c in title if c.isalnum() or c.isspace() or c in '.,!?-:;\'\"()[]')
RECURSIVE KeepSafe(_)
KeepSafe(s) ==
    IF s = <<>> THEN <<>>
    ELSE (IF Head(s) \in Alnum \cup Whitespace \cup SafePunctuation
          THEN <<Head(s)>> ELSE <<>>) \o KeepSafe(Tail(s))

\* A variant that normalises the whitespace before the unsafe characters
\* are dropped.
sanitize_title_collapse_first(title) ==
    IF title = <<>> THEN <<>>
    ELSE KeepSafe(CollapseWhitespace(RemoveControl(title)))

\* title_utils.py lines 120-141
sanitize_title(title) ==
    IF title = <<>> THEN <<>>
    ELSE CollapseWhitespace(KeepSafe(RemoveControl(title)))

\* ------------------------------------------------------------------------
\* tests/unit/test_notification_logic.py: the notification rule
\* ------------------------------------------------------------------------
None == "None"
VALID_TYPES == {"article", "video", "podcast", "product", "code", "social", "document"}

\* A variant of the loop that inspects only the first entry of the array.
has_critical_error_first_only(errors) ==
    errors # <<>> /\ (Head(errors).stage = "transcription" \/ Head(errors).recoverable = "false")

\* the loop over response['errors']: an entry is critical when its stage is
\* transcription or its recoverable is the value False
RECURSIVE has_critical_error(_)
has_critical_error(errors) ==
    IF errors = <<>> THEN FALSE
    ELSE IF Head(errors).stage = "transcription" THEN TRUE
    ELSE IF Head(errors).recoverable = "false" THEN TRUE
    ELSE has_critical_error(Tail(errors))

is_error(response, status_code) ==
    IF status_code >= 400 THEN TRUE
    ELSE IF response.has_error THEN TRUE
    ELSE IF response.has_errors /\ has_critical_error(response.errors) THEN TRUE
    ELSE IF response.title \in {None, ""} THEN TRUE
    ELSE IF response.type \notin VALID_TYPES THEN TRUE
    ELSE FALSE

\* ------------------------------------------------------------------------
\* Responses and error entries of the two enrichers
\* ------------------------------------------------------------------------
ERROR_STAGES == {"fetch", "processing", "ai_analysis", "transcription", "download",
                 "metadata", "upload"}

\* {'stage': stage, 'message': message, 'recoverable': recoverable}
ErrorObject(stage, message, recoverable) ==
    [kind |-> "object", stage |-> stage, message |-> message, recoverable |-> recoverable]
\* a bare message string
ErrorString(message) ==
    [kind |-> "string", stage |-> None, message |-> message, recoverable |-> "absent"]
NoError == [kind |-> "none", stage |-> None, message |-> None, recoverable |-> "absent"]

\* a returned (body, status): body "empty" is the '' of the CORS preflight
NoWebResponse ==
    [status |-> 0, body |-> "none", has_error |-> FALSE, error |-> NoError,
     has_errors |-> FALSE, errors |-> <<>>, title |-> None, type |-> None,
     transcription |-> None, path |-> "none"]

\* ------------------------------------------------------------------------
\* webpage-enricher/main.py: get_spotify_access_token and its cache
\* ------------------------------------------------------------------------
TOKEN_BUFFER == 60
Threads == {"t1", "t2"}
NoToken == 0
EmptyCache == [token |-> NoToken, expires_at |-> 0]
\* expires_in values of the auth response, in seconds
ExpiresInChoices == {2 * TOKEN_BUFFER, 3 * TOKEN_BUFFER}
NoLocal == [data_token |-> NoToken, expires_in |-> 0, seen_owner |-> NoToken,
            returned |-> NoToken, from_cache |-> FALSE, clock |-> 0]

\* ------------------------------------------------------------------------
\* webpage-enricher/main.py: enrich_webpage and the podcast chain
\* ------------------------------------------------------------------------
NoSpotify == [success |-> FALSE, title |-> None, show_name |-> None, extra |-> FALSE,
              source |-> "none"]
NoPage == [fetch |-> "none", type |-> None, meta_title |-> None, ai |-> "none"]
\* a title by its length: "T" has at most MAX_TITLE_LENGTH characters, "LONG" more
TitleValues == {None, "", "T", "LONG"}
Truthy(x) == x # None /\ x # ""
\* the tags detect_content_type can return
DETECTED_TYPES == {"video", "podcast", "social", "code", "product", "article"}
\* the ways fetch_webpage fails
FETCH_FAILURES == {"timeout", "http_4xx", "http_429", "http_5xx", "connection"}

\* lines 804-812: the errors array of the podcast record
spotify_errors(ai_error, transcription_error) ==
    (IF ai_error THEN <<ErrorObject("ai_analysis", "ai error", "true")>> ELSE <<>>)
    \o (IF transcription_error # None
        THEN <<ErrorObject("transcription", transcription_error, "true")>> ELSE <<>>)

\* lines 780-814: the podcast record, returned with status 200
spotify_response(spotify, ai_error, transcription, transcription_error) ==
    LET errors == spotify_errors(ai_error, transcription_error) IN
    [status |-> 200, body |-> "record", has_error |-> FALSE, error |-> NoError,
     has_errors |-> errors # <<>>, errors |-> errors,
     title |-> spotify.title, type |-> "podcast",
     transcription |-> transcription, path |-> "spotify"]

\* lines 819-828: a fetch failure, returned with status 200
fetch_error_response(failure) ==
    [status |-> 200, body |-> "record", has_error |-> TRUE,
     error |-> ErrorObject("fetch", failure, "true"),
     has_errors |-> FALSE, errors |-> <<>>, title |-> None, type |-> None,
     transcription |-> None, path |-> "fetch_error"]

\* A variant that reports an AI failure of the page path in the errors array.
page_response_errors_array(content_type, meta_title, ai) ==
    LET ai_failed == ai \in {"no_key", "insufficient", "exception"} IN
    [status |-> 200, body |-> "record", has_error |-> FALSE, error |-> NoError,
     has_errors |-> ai_failed,
     errors |-> IF ai_failed THEN <<ErrorObject("ai_analysis", ai, "true")>> ELSE <<>>,
     title |-> IF ai = "ok_title" THEN "T"
               ELSE IF ai = "ok_long_title" THEN "LONG" ELSE meta_title,
     type |-> content_type, transcription |-> None, path |-> "page"]

\* lines 856-883: the page record; an AI failure goes to the singular error.
\* The title is the one Gemini returned, whatever its length (lines 613 and
\* 861), and the page's own title when Gemini returned none
page_response(content_type, meta_title, ai) ==
    LET ai_failed == ai \in {"no_key", "insufficient", "exception"} IN
    [status |-> 200, body |-> "record", has_error |-> ai_failed,
     error |-> IF ai_failed THEN ErrorObject("ai_analysis", ai, "true") ELSE NoError,
     has_errors |-> FALSE, errors |-> <<>>,
     title |-> IF ai = "ok_title" THEN "T"
               ELSE IF ai = "ok_long_title" THEN "LONG" ELSE meta_title,
     type |-> content_type, transcription |-> None, path |-> "page"]

\* A variant that reports the unexpected exception with status 200.
crash_response_status_200 ==
    [status |-> 200, body |-> "record", has_error |-> TRUE,
     error |-> ErrorObject("processing", "exception", "false"),
     has_errors |-> FALSE, errors |-> <<>>, title |-> None, type |-> None,
     transcription |-> None, path |-> "crash"]

\* lines 885-892: an unexpected exception, returned with status 500
crash_response ==
    [status |-> 500, body |-> "record", has_error |-> TRUE,
     error |-> ErrorObject("processing", "exception", "false"),
     has_errors |-> FALSE, errors |-> <<>>, title |-> None, type |-> None,
     transcription |-> None, path |-> "crash"]

\* lines 677-680: no JSON body or no url, returned with status 400
bad_request_response ==
    [status |-> 400, body |-> "record", has_error |-> TRUE,
     error |-> ErrorString("Missing required field: url"),
     has_errors |-> FALSE, errors |-> <<>>, title |-> None, type |-> None,
     transcription |-> None, path |-> "bad_request"]

\* lines 663-670: the CORS preflight
preflight_response == [NoWebResponse EXCEPT !.status = 204, !.body = "empty",
                                            !.path = "preflight"]

\* ------------------------------------------------------------------------
\* The video enricher: results, validation and responses
\* ------------------------------------------------------------------------
\* analysis_utils.py lines 23-30
REQUIRED_ANALYSIS_SECTIONS == <<"Visual Content", "Audio Content", "Style & Production",
                                "Mood & Tone", "Key Messages", "Content Category">>
SectionIndex == DOMAIN REQUIRED_ANALYSIS_SECTIONS

NoInfo == [source |-> None, download_method |-> None, title |-> None]
\* info.get('title', 'Untitled') of a download
DownloadedTitles == {"T", "LONG"}
\* lines 308-316: sanitize_title, truncate_title and the 'Untitled' fallback
tiktok_title(raw) ==
    IF raw = "LONG" \/ ~Truthy(raw) THEN "T" ELSE raw
Attempt(source, ok) == [source |-> source, ok |-> ok]
NoSearch == [round |-> 0]

\* response['transcription'] of transcribe_audio: the error and the text
NoTranscription == [present |-> FALSE, error |-> FALSE, text |-> None]
TranscriptionResults ==
    {[present |-> TRUE, error |-> TRUE, text |-> None]}
    \cup {[present |-> TRUE, error |-> FALSE, text |-> x] : x \in {None, "", " ", "text"}}

\* response['gemini_analysis'] of analyze_video_with_gemini: the error, whether
\* there is analysis text, and for each required section what parsing finds
AllOk == [i \in SectionIndex |-> "ok"]
NoGemini == [present |-> FALSE, error |-> FALSE, text |-> FALSE, sections |-> AllOk]
SectionFindings ==
    {f \in [SectionIndex -> {"ok", "missing", "empty"}] :
        Cardinality({i \in SectionIndex : f[i] # "ok"}) <= MaxBadSections}
GeminiResults ==
    {[present |-> TRUE, error |-> TRUE, text |-> FALSE, sections |-> AllOk],
     [present |-> TRUE, error |-> FALSE, text |-> FALSE, sections |-> AllOk]}
    \cup {[present |-> TRUE, error |-> FALSE, text |-> TRUE, sections |-> f] :
             f \in SectionFindings}

\* analysis_utils.py lines 169-197: one message for each missing or empty
\* section, in the order of the required sections
RECURSIVE section_errors(_, _)
section_errors(sections, i) ==
    IF i > Len(REQUIRED_ANALYSIS_SECTIONS) THEN <<>>
    ELSE (IF sections[i] = "missing"
          THEN <<"Missing required section: " \o REQUIRED_ANALYSIS_SECTIONS[i]>>
          ELSE IF sections[i] = "empty"
          THEN <<"Section is empty: " \o REQUIRED_ANALYSIS_SECTIONS[i]>>
          ELSE <<>>)
         \o section_errors(sections, i + 1)

\* analysis_utils.py lines 124-199
validate_analysis_sections(gemini) ==
    IF ~gemini.text THEN <<"Analysis text is missing or empty">>
    ELSE section_errors(gemini.sections, 1)

\* analysis_utils.py lines 202-234
validate_transcription(transcription) ==
    IF transcription.error THEN <<"Transcription error">>
    ELSE IF transcription.text \in {None, "", " "} THEN <<"Transcript text is empty">>
    ELSE <<>>

\* A variant that returns as soon as the analysis carries an error.
validate_video_enrichment_stops_at_gemini_error(gemini, transcription) ==
    IF gemini.present /\ gemini.error THEN <<"Gemini analysis error">>
    ELSE (IF ~gemini.present THEN <<>> ELSE validate_analysis_sections(gemini))
         \o (IF transcription.present THEN validate_transcription(transcription)
             ELSE <<>>)

\* analysis_utils.py lines 237-286: the messages, in order; valid iff there
\* are none
validate_video_enrichment(gemini, transcription) ==
    (IF ~gemini.present THEN <<>>
     ELSE IF gemini.error THEN <<"Gemini analysis error">>
     ELSE validate_analysis_sections(gemini))
    \o (IF transcription.present THEN validate_transcription(transcription) ELSE <<>>)

\* ---- analysis_utils.py: the analysis text read line by line ----
\* A line is what the two patterns of parse_gemini_analysis see in it: a
\* numbered header '1. **<icon> <name>**[:] <body>', a heading
\* '## <icon> <name>', or text. A body is "" (blank), "c" (text), "c_" (text
\* followed by blanks) or ":c" (a colon, then text).
HeaderLine(icon, name, body) ==
    [kind |-> "numbered", icon |-> icon, name |-> name, body |-> body]
HeadingLine(icon, name) ==
    [kind |-> "heading", icon |-> icon, name |-> name, body |-> ""]
TextLine(body) ==
    [kind |-> "text", icon |-> FALSE, name |-> None, body |-> body]

\* str.strip() of one body
Strip(body) == IF body = "c_" THEN "c" ELSE body

\* A variant that leaves the icon in the name.
strip_icon_kept(line) ==
    IF line.icon THEN "icon " \o line.name ELSE line.name

\* lines 38-50: the header's name with the leading icon removed
strip_icon(line) == line.name

\* '\n'.join(current_content).strip(): the lines of a content, without the
\* blank lines at both ends and the blanks that end the last line
RECURSIVE StripText(_)
StripText(content) ==
    IF content = <<>> THEN <<>>
    ELSE IF Head(content) = "" THEN StripText(Tail(content))
    ELSE IF content[Len(content)] = ""
    THEN StripText(SubSeq(content, 1, Len(content) - 1))
    ELSE [content EXCEPT ![Len(content)] = Strip(@)]

\* sections[current_section] = ...: a dict keeps the order of insertion
SaveSection(sections, current_section, current_content) ==
    IF current_section = None THEN sections
    ELSE LET at == {i \in DOMAIN sections : sections[i].key = current_section}
             entry == [key |-> current_section, content |-> StripText(current_content)]
         IN  IF at = {} THEN Append(sections, entry)
             ELSE [i \in DOMAIN sections |-> IF i \in at THEN entry ELSE sections[i]]

\* lines 80-104 with kind "numbered", lines 108-119 with kind "heading".
\* The header pattern is matched against line.strip(), and its [:\s]* takes
\* every colon and blank that follows the closing **, so that group(2) is
\* the body without the blanks at its end and the colons at its start
RECURSIVE ParseLines(_, _, _, _, _)
ParseLines(lines, kind, sections, current_section, current_content) ==
    IF lines = <<>> THEN SaveSection(sections, current_section, current_content)
    ELSE LET line == Head(lines)
             same_line_content == IF Strip(line.body) = ":c" THEN "c"
                                  ELSE Strip(line.body)
         IN
         IF line.kind = kind
         THEN ParseLines(Tail(lines), kind,
                         SaveSection(sections, current_section, current_content),
                         strip_icon(line),
                         IF kind = "numbered" /\ same_line_content # ""
                         THEN <<same_line_content>> ELSE <<>>)
         ELSE IF current_section # None
         THEN ParseLines(Tail(lines), kind, sections, current_section,
                         Append(current_content, line.body))
         ELSE ParseLines(Tail(lines), kind, sections, current_section, current_content)

\* lines 53-121: the sections as a sequence of (key, content) in dict order
parse_gemini_analysis(analysis_text) ==
    IF analysis_text = <<>> THEN <<>>
    ELSE LET numbered == ParseLines(analysis_text, "numbered", <<>>, None, <<>>)
         IN  IF numbered # <<>> THEN numbered
             ELSE ParseLines(analysis_text, "heading", <<>>, None, <<>>)

\* str.lower() of the header names the texts use
Lower(name) ==
    CASE name = "Visual Content" -> "visual content"
      [] name = "Audio Content" -> "audio content"
      [] name = "Style & Production" -> "style & production"
      [] name = "Style and Production" -> "style and production"
      [] name = "Mood & Tone" -> "mood & tone"
      [] name = "Mood and Tone" -> "mood and tone"
      [] name = "Tone & Mood" -> "tone & mood"
      [] name = "Key Messages" -> "key messages"
      [] name = "Content Category" -> "content category"
      [] OTHER -> name

\* set(re.findall(r'\w+', name.lower()))
Words(name) ==
    LET lower == Lower(name) IN
    CASE lower = "visual content" -> {"visual", "content"}
      [] lower = "audio content" -> {"audio", "content"}
      [] lower = "style & production" -> {"style", "production"}
      [] lower = "style and production" -> {"style", "and", "production"}
      [] lower \in {"mood & tone", "tone & mood"} -> {"mood", "tone"}
      [] lower = "mood and tone" -> {"mood", "and", "tone"}
      [] lower = "key messages" -> {"key", "messages"}
      [] lower = "content category" -> {"content", "category"}

\* lines 171-188: the position in sections of the content found for a
\* required name, 0 when all three lookups fail
LookupSection(sections, section_name) ==
    LET First(S) == CHOOSE i \in S : \A j \in S : i <= j
        exact == {i \in DOMAIN sections : sections[i].key = section_name}
        nocase == {i \in DOMAIN sections :
                      Lower(sections[i].key) = Lower(section_name)}
        words == {i \in DOMAIN sections :
                     Words(sections[i].key) = Words(section_name)}
    IN  IF exact # {} THEN First(exact)
        ELSE IF nocase # {} THEN First(nocase)
        ELSE IF words # {} THEN First(words)
        ELSE 0

\* A variant that lists an empty section without making the result invalid.
RECURSIVE CheckSections_empty_stays_valid(_, _, _)
CheckSections_empty_stays_valid(sections, i, result) ==
    IF i > Len(REQUIRED_ANALYSIS_SECTIONS) THEN result
    ELSE LET section_name == REQUIRED_ANALYSIS_SECTIONS[i]
             at == LookupSection(sections, section_name)
         IN  CheckSections_empty_stays_valid(sections, i + 1,
                 IF at = 0
                 THEN [result EXCEPT !.valid = FALSE,
                          !.missing = Append(@, section_name),
                          !.errors = Append(@, "Missing required section: " \o section_name)]
                 ELSE IF sections[at].content = <<>>
                 THEN [result EXCEPT
                          !.empty = Append(@, section_name),
                          !.errors = Append(@, "Section is empty: " \o section_name)]
                 ELSE result)

\* lines 170-197: the loop over the required sections
RECURSIVE CheckSections(_, _, _)
CheckSections(sections, i, result) ==
    IF i > Len(REQUIRED_ANALYSIS_SECTIONS) THEN result
    ELSE LET section_name == REQUIRED_ANALYSIS_SECTIONS[i]
             at == LookupSection(sections, section_name)
         IN  CheckSections(sections, i + 1,
                 IF at = 0
                 THEN [result EXCEPT !.valid = FALSE,
                          !.missing = Append(@, section_name),
                          !.errors = Append(@, "Missing required section: " \o section_name)]
                 ELSE IF sections[at].content = <<>>
                 THEN [result EXCEPT !.valid = FALSE,
                          !.empty = Append(@, section_name),
                          !.errors = Append(@, "Section is empty: " \o section_name)]
                 ELSE result)

NoValidation ==
    [valid |-> TRUE, sections |-> <<>>, missing |-> <<>>, empty |-> <<>>, errors |-> <<>>]

\* lines 124-199, on the text itself
validate_analysis_text(analysis_text) ==
    IF analysis_text = <<>>
    THEN [NoValidation EXCEPT !.valid = FALSE,
             !.errors = <<"Analysis text is missing or empty">>,
             !.missing = REQUIRED_ANALYSIS_SECTIONS]
    ELSE LET sections == parse_gemini_analysis(analysis_text)
         IN  CheckSections(sections, 1, [NoValidation EXCEPT !.sections = sections])

\* ---- webpage-enricher/main.py: detect_content_type ----
\* lines 42-46
VIDEO_PATTERNS == {"youtube.com", "youtu.be", "vimeo.com", "tiktok.com", "twitch.tv"}
SOCIAL_PATTERNS == {"twitter.com", "x.com", "instagram.com", "linkedin.com/posts",
                    "facebook.com", "threads.net"}
CODE_PATTERNS == {"github.com", "gitlab.com", "stackoverflow.com", "codepen.io",
                  "jsfiddle.net", "replit.com"}
PRODUCT_PATTERNS == {"amazon.", "ebay.", "etsy.com", "shopify.", "aliexpress.",
                     "walmart.com", "target.com"}
PODCAST_PATTERNS == {"spotify.com/episode", "podcasts.apple.com", "overcast.fm",
                     "pocketcasts.com"}

\* a URL 'https://<domain><path>'; the page as the two heuristics see it
NoUrl == [domain |-> "", path |-> ""]
NoSoup == [present |-> FALSE, price |-> FALSE, code_blocks |-> 0]
Domains == {"www.youtube.com", "open.spotify.com", "podcasts.apple.com", "x.com",
            "www.linkedin.com", "github.com", "shopify.github.com", "www.amazon.co.uk",
            "blog.example.com"}
Paths == {"/", "/episode/abc", "/album/abc", "/posts/abc", "/r?u=podcasts.apple.com"}

\* 'pattern in domain': the patterns that occur in urlparse(url).netloc.lower()
DomainPatterns(domain) ==
    CASE domain = "www.youtube.com" -> {"youtube.com"}
      [] domain = "podcasts.apple.com" -> {"podcasts.apple.com"}
      [] domain = "x.com" -> {"x.com"}
      [] domain = "github.com" -> {"github.com"}
      [] domain = "shopify.github.com" -> {"shopify.", "github.com"}
      [] domain = "www.amazon.co.uk" -> {"amazon."}
      [] OTHER -> {}

\* 'pattern in url.lower()': also the patterns that occur in the path or
\* run from the end of the domain into the path
UrlPatterns(url) ==
    DomainPatterns(url.domain)
    \cup (IF url.path = "/r?u=podcasts.apple.com" THEN {"podcasts.apple.com"} ELSE {})
    \cup (IF url.domain = "open.spotify.com" /\ url.path = "/episode/abc"
          THEN {"spotify.com/episode"} ELSE {})
    \cup (IF url.domain = "www.linkedin.com" /\ url.path = "/posts/abc"
          THEN {"linkedin.com/posts"} ELSE {})

\* lines 326-364
detect_content_type(url, soup) ==
    LET domain == DomainPatterns(url.domain) IN
    IF VIDEO_PATTERNS \cap domain # {} THEN "video"
    ELSE IF PODCAST_PATTERNS \cap UrlPatterns(url) # {} THEN "podcast"
    ELSE IF SOCIAL_PATTERNS \cap domain # {} THEN "social"
    ELSE IF CODE_PATTERNS \cap domain # {} THEN "code"
    ELSE IF PRODUCT_PATTERNS \cap domain # {} THEN "product"
    ELSE IF soup.present /\ soup.price THEN "product"
    ELSE IF soup.present /\ soup.code_blocks > 3 THEN "code"
    ELSE "article"

\* ---- webpage-enricher/main.py: find_episode_in_rss ----
\* Scores are in hundredths. An itunes_duration is its parts between colons,
\* <<>> when the entry has none; Unknown stands for None and for a part that
\* is not a number.
Unknown == -1
MIN_SCORE == 50        \* line 261: best_score < 0.5
DURATION_BOOST == 20   \* line 254: score += 0.2
DURATION_WINDOW == 2   \* line 253: within 2 minutes

\* lines 239-245: int() of a part that is not a number raises ValueError
DurationRaises(dur) ==
    \/ Len(dur) = 2 /\ dur[1] = Unknown
    \/ Len(dur) = 3 /\ (dur[1] = Unknown \/ dur[2] = Unknown)

\* lines 235-250: the entry's duration in minutes
entry_duration(dur) ==
    IF Len(dur) = 2 THEN dur[1]
    ELSE IF Len(dur) = 3 THEN dur[1] * 60 + dur[2]
    ELSE IF Len(dur) = 1 /\ dur[1] # Unknown THEN dur[1] \div 60
    ELSE Unknown

\* lines 236 and 253: None and 0 are both false
DurationMatches(dur, duration_minutes) ==
    /\ duration_minutes \notin {Unknown, 0}
    /\ entry_duration(dur) \notin {Unknown, 0}
    /\ entry_duration(dur) - duration_minutes \in -DURATION_WINDOW..DURATION_WINDOW

\* lines 233-254
EntryScore(entry, duration_minutes) ==
    entry.similarity
    + (IF DurationMatches(entry.duration, duration_minutes) THEN DURATION_BOOST ELSE 0)

\* lines 226-258: the index of the best entry (0 for None) and its score
RECURSIVE BestMatch(_, _, _, _)
BestMatch(entries, duration_minutes, i, best) ==
    IF i > Len(entries) THEN best
    ELSE LET score == EntryScore(entries[i], duration_minutes)
         IN  BestMatch(entries, duration_minutes, i + 1,
                       IF score > best.score THEN [match |-> i, score |-> score]
                       ELSE best)

NoMatch == [success |-> FALSE, error |-> None, match |-> 0, score |-> 0, audio |-> "none"]

\* lines 211-289
find_episode_in_rss(entries, duration_minutes) ==
    IF entries = <<>>
    THEN [NoMatch EXCEPT !.error = "No episodes found in RSS feed"]
    ELSE IF /\ duration_minutes \notin {Unknown, 0}
            /\ \E i \in DOMAIN entries : DurationRaises(entries[i].duration)
    THEN [NoMatch EXCEPT !.error = "invalid literal for int()"]
    ELSE LET best == BestMatch(entries, duration_minutes, 1, [match |-> 0, score |-> 0])
         IN  IF best.score < MIN_SCORE
             THEN [NoMatch EXCEPT !.error = "No matching episode found", !.score = best.score]
             ELSE IF entries[best.match].audio = "none"
             THEN [NoMatch EXCEPT !.error = "No audio URL found in episode"]
             ELSE [success |-> TRUE, error |-> None, match |-> best.match,
                   score |-> best.score, audio |-> entries[best.match].audio]

\* lines 756-759: response['errors'].extend(validation_result['errors'])
video_errors(messages) ==
    [i \in DOMAIN messages |-> ErrorString(messages[i])]

\* analysis_utils.py lines 237-286: result['valid'], set to False wherever a
\* message is added
video_enrichment_valid(gemini, transcription) ==
    /\ gemini.present =>
          /\ ~gemini.error
          /\ gemini.text
          /\ \A i \in SectionIndex : gemini.sections[i] = "ok"
    /\ transcription.present =>
          /\ ~transcription.error
          /\ transcription.text \notin {None, "", " "}

\* the same record, with the first message also set as the singular error
video_response_with_singular_error(gemini, transcription) ==
    LET messages == validate_video_enrichment(gemini, transcription)
        valid == video_enrichment_valid(gemini, transcription)
    IN
    [status |-> 200, body |-> "record", has_error |-> ~valid,
     error |-> IF valid THEN NoError ELSE ErrorString(messages[1]),
     has_errors |-> ~valid,
     errors |-> IF valid THEN <<>> ELSE video_errors(messages),
     title |-> None, type |-> None,
     transcription |-> IF transcription.present THEN transcription.text ELSE None,
     path |-> "video", success |-> "true",
     validation |-> [present |-> TRUE, valid |-> valid, errors |-> messages]]

\* lines 696-762: the enrichment record, returned with status 200: success
\* is True (line 696), validation holds the validator's valid and errors
\* (lines 749-753), and the errors array, extended with the same messages, is
\* there when the validation failed (lines 756-759)
video_response(gemini, transcription) ==
    LET messages == validate_video_enrichment(gemini, transcription)
        valid == video_enrichment_valid(gemini, transcription)
    IN
    [status |-> 200, body |-> "record", has_error |-> FALSE, error |-> NoError,
     has_errors |-> ~valid,
     errors |-> IF valid THEN <<>> ELSE video_errors(messages),
     title |-> None, type |-> None,
     transcription |-> IF transcription.present THEN transcription.text ELSE None,
     path |-> "video", success |-> "true",
     validation |-> [present |-> TRUE, valid |-> valid, errors |-> messages]]

\* line 675: no video_url, returned with status 400; the body has no
\* success key
video_bad_request_response ==
    [status |-> 400, body |-> "record", has_error |-> TRUE,
     error |-> ErrorString("video_url is required"),
     has_errors |-> FALSE, errors |-> <<>>, title |-> None, type |-> None,
     transcription |-> None, path |-> "video_bad_request", success |-> "absent",
     validation |-> [present |-> FALSE, valid |-> FALSE, errors |-> <<>>]]

\* lines 764-767: any exception, returned with status 500, str(e) and
\* success False
video_crash_response(message) ==
    [status |-> 500, body |-> "record", has_error |-> TRUE,
     error |-> ErrorString(message),
     has_errors |-> FALSE, errors |-> <<>>, title |-> None, type |-> None,
     transcription |-> None, path |-> "video_crash", success |-> "false",
     validation |-> [present |-> FALSE, valid |-> FALSE, errors |-> <<>>]]

\* lines 646-652: the CORS preflight
video_preflight_response == [NoWebResponse EXCEPT !.status = 204, !.body = "empty",
                                                  !.path = "video_preflight"]

\* ------------------------------------------------------------------------
\* shared/title_utils.py, lines 57-221: validate_title, validate_title_quality
\* ------------------------------------------------------------------------
\* A title is a sequence of words joined by single spaces, padded or not with
\* one space on each side. A word is a shape and a length:
\*   "lower"   abcabc...         "upper"   ABCABC...
\*   "ing"     abcabc...ing      "digits"  123456...
\*   "same"    zzzz...           "punct"   !?!
\*   "accent"  lowercase letters outside ASCII
\*   "nul"     a, a null byte, b "the"     the word 'the'
WordLengths == {3, 21, 26, 27, 43, 201}
TitleWords ==
    [shape : {"lower", "upper", "ing"}, len : WordLengths]
        \cup [shape : {"digits", "same"}, len : {3, 21}]
        \cup [shape : {"punct", "accent", "nul", "the"}, len : {3}]
TitleTexts == [words : UNION {[1..n -> TitleWords] : n \in 0..MaxWords},
               padded : BOOLEAN]
NoTitle == [words |-> <<>>, padded |-> FALSE]

RECURSIVE WordsLen(_)
WordsLen(words) ==
    IF words = <<>> THEN 0 ELSE Head(words).len + WordsLen(Tail(words))

\* len(title.strip())
StrippedLen(title) ==
    IF title.words = <<>> THEN 0
    ELSE WordsLen(title.words) + Len(title.words) - 1

\* len(title)
RawLen(title) ==
    StrippedLen(title) + (IF title.padded THEN 2 ELSE 0)

\* word.lower()
LowerWord(w) == IF w.shape = "upper" THEN [w EXCEPT !.shape = "lower"] ELSE w

LastWord(title) == title.words[Len(title.words)]

\* the issues in the order the code looks for them
QualityIssues ==
    <<"all uppercase", "no spaces", "repeated word", "cut mid-word", "garbage",
      "very short">>

\* lines 169-210: the condition of each issue
\*   169      title.isupper() and len(title) > 5
\*   174      len(title) > 20 and ' ' not in title
\*   179-185  two adjacent words of title.lower().split() are equal
\*   188-192  near the limit, and the last word ends with a lowercase letter
\*            but with no complete ending
\*   198-204  [a-z]{15,}, (.)\1{4,} or \d{10,} found in title.lower()
\*   210      len(title) < 5
IssueHolds(issue, title) ==
    CASE issue = "all uppercase" ->
            /\ \E i \in DOMAIN title.words : title.words[i].shape = "upper"
            /\ \A i \in DOMAIN title.words :
                   title.words[i].shape \in {"upper", "digits", "punct"}
            /\ StrippedLen(title) > 5
      [] issue = "no spaces" -> StrippedLen(title) > 20 /\ Len(title.words) = 1
      [] issue = "repeated word" ->
            \E i \in 1..(Len(title.words) - 1) :
                LowerWord(title.words[i]) = LowerWord(title.words[i + 1])
      [] issue = "cut mid-word" ->
            /\ StrippedLen(title) >= MAX_TITLE_LENGTH - 5
            /\ LastWord(title).shape \in {"lower", "same", "accent", "nul", "the"}
      [] issue = "garbage" ->
            \E i \in DOMAIN title.words :
                LET w == title.words[i] IN
                \/ w.shape \in {"lower", "upper", "ing", "same"} /\ w.len >= 15
                \/ w.shape = "same" /\ w.len >= 5
                \/ w.shape = "digits" /\ w.len >= 10
      [] issue = "very short" -> StrippedLen(title) < 5

\* the penalty of each issue, in hundredths
IssuePenalty(issue) ==
    CASE issue = "all uppercase" -> 20
      [] issue = "no spaces" -> 30
      [] issue = "repeated word" -> 10
      [] issue = "cut mid-word" -> 15
      [] issue = "garbage" -> 30
      [] issue = "very short" -> 20

RECURSIVE Penalties(_)
Penalties(issues) ==
    IF issues = <<>> THEN 0
    ELSE IssuePenalty(Head(issues)) + Penalties(Tail(issues))

NoQuality == [quality_score |-> 0, issues |-> <<>>, is_acceptable |-> FALSE]

\* the same checks written as an elif chain: only the first issue counts
validate_title_quality_first_issue_only(title) ==
    IF title.words = <<>>
    THEN [quality_score |-> 0, issues |-> <<"Title is empty">>, is_acceptable |-> FALSE]
    ELSE LET Holds(issue) == IssueHolds(issue, title)
             found == SelectSeq(QualityIssues, Holds)
             issues == SubSeq(found, 1, Min(1, Len(found)))
             score == Max(0, Min(100, 100 - Penalties(issues)))
         IN  [quality_score |-> score, issues |-> issues, is_acceptable |-> score >= 70]

\* lines 144-221: validate_title_quality; the score is in hundredths
validate_title_quality(title) ==
    IF title.words = <<>>
    THEN [quality_score |-> 0, issues |-> <<"Title is empty">>, is_acceptable |-> FALSE]
    ELSE LET Holds(issue) == IssueHolds(issue, title)
             issues == SelectSeq(QualityIssues, Holds)
             score == Max(0, Min(100, 100 - Penalties(issues)))
         IN  [quality_score |-> score, issues |-> issues, is_acceptable |-> score >= 70]

TitleErrors == <<"exceeds limit", "null bytes", "no alphanumeric">>

TitleWarnings == <<"unusually long", "truncated mid-word", "incomplete word">>

\* lines 78-106: the condition of each error and warning
\*   78       len(title) > MAX_TITLE_LENGTH
\*   82       '\x00' in title
\*   87-88    nothing is left of the title once every character that is not
\*            an ASCII letter, a digit or whitespace is removed
\*   92       len(title) > 200
\*   96       title[-1].isalnum() and len(title) >= MAX_TITLE_LENGTH
\*   101-106  title.lower() ends with one of the incomplete endings
TitleCheckHolds(check, title) ==
    CASE check = "exceeds limit" -> RawLen(title) > MAX_TITLE_LENGTH
      [] check = "null bytes" ->
            \E i \in DOMAIN title.words : title.words[i].shape = "nul"
      [] check = "no alphanumeric" ->
            \A i \in DOMAIN title.words : title.words[i].shape \in {"punct", "accent"}
      [] check = "unusually long" -> RawLen(title) > 200
      [] check = "truncated mid-word" ->
            /\ ~title.padded
            /\ LastWord(title).shape # "punct"
            /\ RawLen(title) >= MAX_TITLE_LENGTH
      [] check = "incomplete word" ->
            /\ ~title.padded
            /\ Len(title.words) >= 2
            /\ LastWord(title).shape = "the"

NoTitleValidation == [valid |-> FALSE, errors |-> <<>>, warnings |-> <<>>]

\* lines 57-112: validate_title
validate_title(title) ==
    IF RawLen(title) = 0
    THEN [valid |-> FALSE, errors |-> <<"missing or empty">>, warnings |-> <<>>]
    ELSE IF title.words = <<>>
    THEN [valid |-> FALSE, errors |-> <<"only whitespace">>, warnings |-> <<>>]
    ELSE LET Holds(check) == TitleCheckHolds(check, title)
             errors == SelectSeq(TitleErrors, Holds)
         IN  [valid |-> errors = <<>>, errors |-> errors,
              warnings |-> SelectSeq(TitleWarnings, Holds)]

\* ------------------------------------------------------------------------
\* video-enricher/main.py, lines 148-172: the entry picked among the results
\* of the yt-dlp search
\* ------------------------------------------------------------------------
\* line 172: return None
NoCandidate == 0

\* an entry of results['entries']: None, or a dict with or without an id and
\* with a duration in seconds, Unknown for None
Candidates ==
    {e \in [present : BOOLEAN, id : BOOLEAN, duration : {Unknown, 0, 300, 301}] :
        ~e.present => ~e.id /\ e.duration = Unknown}

\* line 154 and line 166: entry and entry.get('id')
HasId(entry) == entry.present /\ entry.id

\* line 159: duration and duration > 300
IsLong(entry) == entry.duration # Unknown /\ entry.duration > 300

\* the same choice, with the first entry accepted whatever it is
PickEntry_first_whatever(entries) ==
    IF entries = <<>> THEN NoCandidate
    ELSE LET long == {i \in DOMAIN entries : HasId(entries[i]) /\ IsLong(entries[i])} IN
         IF long # {} THEN CHOOSE i \in long : \A j \in long : i <= j
         ELSE 1

\* lines 148-172: the index of the entry whose URL is returned
PickEntry(entries) ==
    IF entries = <<>> THEN NoCandidate
    ELSE LET long == {i \in DOMAIN entries : HasId(entries[i]) /\ IsLong(entries[i])} IN
         IF long # {} THEN CHOOSE i \in long : \A j \in long : i <= j
         ELSE IF HasId(entries[1]) THEN 1
         ELSE NoCandidate

\* ------------------------------------------------------------------------
\* Idle values: what a specification leaves alone
\* ------------------------------------------------------------------------
Titles == UNION {[1..n -> TitleChars] : n \in 0..MaxTitleLen}
NoResult == [title |-> <<>>, was_truncated |-> FALSE]
NoResponse == [has_error |-> FALSE, has_errors |-> FALSE, errors |-> <<>>,
               title |-> None, type |-> None]

TitleIdle ==
    /\ t_pc = "idle" /\ t_title = <<>> /\ t_max = 0 /\ t_result = NoResult

NotifyIdle ==
    /\ n_pc = "idle" /\ n_response = NoResponse /\ n_status = 0 /\ n_notify = FALSE

TokenIdle ==
    /\ spotify_token_cache = EmptyCache
    /\ k_pc = [t \in Threads |-> "off"]
    /\ k_local = [t \in Threads |-> NoLocal]
    /\ k_now = 0 /\ k_creds = FALSE /\ k_issued = 0 /\ k_calls = 0
    /\ k_exp_owner = NoToken

WebIdle ==
    /\ w_pc = "off" /\ w_req = [method |-> "POST", url |-> "page", skip_ai |-> FALSE]
    /\ w_gemini_key = FALSE /\ w_spotify = NoSpotify /\ w_ai_error = FALSE
    /\ w_transcription = None /\ w_transcription_error = None /\ w_page = NoPage
    /\ w_calls = <<>> /\ w_response = NoWebResponse /\ w_notify = FALSE

VidIdle ==
    /\ v_pc = "off"
    /\ v_req = [method |-> "POST", url |-> "other", extract_audio |-> FALSE,
                transcribe_audio |-> FALSE, analyze_video |-> FALSE]
    /\ v_search = NoSearch /\ v_attempts = <<>> /\ v_carried = <<>>
    /\ v_info = NoInfo /\ v_transcription = NoTranscription /\ v_gemini = NoGemini
    /\ v_response = NoWebResponse

SanIdle ==
    /\ s_pc = "idle" /\ s_title = <<>> /\ s_once = <<>> /\ s_twice = <<>>

AnaIdle ==
    /\ a_pc = "idle" /\ a_choice = <<>> /\ a_format = "none"
    /\ a_sections = <<>> /\ a_twin_sections = <<>> /\ a_result = NoValidation

DetIdle ==
    /\ d_pc = "idle" /\ d_url = NoUrl /\ d_soup = NoSoup /\ d_type = None

RssIdle ==
    /\ r_pc = "idle" /\ r_feed = <<>> /\ r_duration = Unknown /\ r_result = NoMatch

QualIdle ==
    /\ q_pc = "idle" /\ q_title = NoTitle /\ q_quality = NoQuality
    /\ q_validation = NoTitleValidation

ScrIdle ==
    /\ c_pc = "idle" /\ c_entries = <<>> /\ c_url = NoCandidate

ExtraIdle == QualIdle /\ ScrIdle

PureIdle == SanIdle /\ AnaIdle /\ DetIdle /\ RssIdle /\ ExtraIdle

\* ------------------------------------------------------------------------
\* Specification SpecTitle: truncate_title applied to every bounded input
\* ------------------------------------------------------------------------
TitleInit ==
    /\ t_pc = "input"
    /\ t_title \in Titles
    /\ t_max \in 0..MaxLimit
    /\ t_result = NoResult
    /\ NotifyIdle /\ TokenIdle /\ WebIdle /\ VidIdle /\ PureIdle

TruncateTitle ==
    /\ t_pc = "input"
    /\ t_result' = truncate_title(t_title, t_max)
    /\ t_pc' = "done"
    /\ UNCHANGED <<t_title, t_max, notifyVars, tokenVars, webVars, vidVars, pureVars>>

TitleNext == TruncateTitle

SpecTitle == TitleInit /\ [][TitleNext]_vars

\* ------------------------------------------------------------------------
\* Specification SpecSanitize: sanitize_title applied to its own result
\* ------------------------------------------------------------------------
SanitizeInputs == UNION {[1..n -> SanitizeChars] : n \in 0..MaxSanLen}

SanitizeInit ==
    /\ s_pc = "input"
    /\ s_title \in SanitizeInputs
    /\ s_once = <<>> /\ s_twice = <<>>
    /\ TitleIdle /\ NotifyIdle /\ TokenIdle /\ WebIdle /\ VidIdle /\ AnaIdle /\ DetIdle
    /\ RssIdle /\ ExtraIdle

SanFrame == UNCHANGED <<titleVars, notifyVars, tokenVars, webVars, vidVars, anaVars,
                        detVars, rssVars, extraVars, s_title>>

SanitizeOnce ==
    /\ s_pc = "input"
    /\ s_once' = sanitize_title(s_title)
    /\ s_pc' = "once"
    /\ UNCHANGED s_twice
    /\ SanFrame

SanitizeAgain ==
    /\ s_pc = "once"
    /\ s_twice' = sanitize_title(s_once)
    /\ s_pc' = "done"
    /\ UNCHANGED s_once
    /\ SanFrame

SanitizeNext == SanitizeOnce \/ SanitizeAgain

SpecSanitize == SanitizeInit /\ [][SanitizeNext]_vars

\* ------------------------------------------------------------------------
\* Specification SpecAnalysis: an analysis text is parsed, parsed again in
\* its twin format, and validated
\* ------------------------------------------------------------------------
\* the header names a text may give to required section i
Variants(i) ==
    {REQUIRED_ANALYSIS_SECTIONS[i]}
    \cup (CASE i = 1 -> {"visual content"}
            [] i = 3 -> {"Style and Production"}
            [] i = 4 -> {"Mood and Tone", "Tone & Mood"}
            [] OTHER -> {})
\* the lines of a section's content
Contents == {<<"c">>, <<>>, <<"c_", "c">>, <<"c", "", "c">>, <<"c_">>, <<"c_", "">>,
             <<"", "c">>, <<":c">>, <<":c", "c">>}
Absent == [name |-> None, content |-> <<>>]
Usual(i) == [name |-> REQUIRED_ANALYSIS_SECTIONS[i], content |-> <<"c">>]
SectionChoices(i) ==
    {Absent} \cup {[name |-> n, content |-> c] : n \in Variants(i), c \in Contents}

\* lines 57-62: the lines of one section in the icon-prefixed numbered format,
\* in the legacy format with the content after the colon, or under a heading
SectionLines(section, format) ==
    LET content == section.content
        Texts(c) == [k \in DOMAIN c |-> TextLine(c[k])]
    IN  IF section = Absent THEN <<>>
        ELSE IF format = "icon"
        THEN <<HeaderLine(TRUE, section.name, "")>> \o Texts(content) \o <<TextLine("")>>
        ELSE IF format = "legacy"
        THEN IF content = <<>> THEN <<HeaderLine(FALSE, section.name, ""), TextLine("")>>
             ELSE <<HeaderLine(FALSE, section.name, Head(content))>>
                  \o Texts(Tail(content)) \o <<TextLine("")>>
        ELSE <<HeadingLine(TRUE, section.name)>> \o Texts(content) \o <<TextLine("")>>

\* an introduction, then the sections in the order of the prompt
RECURSIVE AnalysisLines(_, _, _)
AnalysisLines(choice, format, i) ==
    IF i > Len(REQUIRED_ANALYSIS_SECTIONS) THEN <<>>
    ELSE SectionLines(choice[i], format) \o AnalysisLines(choice, format, i + 1)

AnalysisText(choice, format) ==
    IF format = "none" THEN <<>>
    ELSE <<TextLine("c")>> \o AnalysisLines(choice, format, 1)

Twin(format) ==
    CASE format = "icon" -> "legacy"
      [] format = "legacy" -> "icon"
      [] OTHER -> format

AnalysisInit ==
    /\ a_pc = "input"
    /\ a_format \in {"icon", "legacy", "heading", "none"}
    /\ \E D \in {S \in SUBSET SectionIndex : Cardinality(S) <= MaxBadSections} :
         \E g \in [D -> UNION {SectionChoices(i) : i \in SectionIndex}] :
            /\ \A i \in D : g[i] \in SectionChoices(i) \ {Usual(i)}
            /\ a_choice = [i \in SectionIndex |-> IF i \in D THEN g[i] ELSE Usual(i)]
    /\ a_sections = <<>> /\ a_twin_sections = <<>> /\ a_result = NoValidation
    /\ TitleIdle /\ NotifyIdle /\ TokenIdle /\ WebIdle /\ VidIdle /\ SanIdle /\ DetIdle
    /\ RssIdle /\ ExtraIdle

AnaFrame == UNCHANGED <<titleVars, notifyVars, tokenVars, webVars, vidVars, sanVars, detVars,
                        rssVars, extraVars,
                        a_choice, a_format>>

ParseAnalysis ==
    /\ a_pc = "input"
    /\ a_sections' = parse_gemini_analysis(AnalysisText(a_choice, a_format))
    /\ a_pc' = "parsed"
    /\ UNCHANGED <<a_twin_sections, a_result>>
    /\ AnaFrame

ParseTwin ==
    /\ a_pc = "parsed"
    /\ a_twin_sections' = parse_gemini_analysis(AnalysisText(a_choice, Twin(a_format)))
    /\ a_pc' = "twin_parsed"
    /\ UNCHANGED <<a_sections, a_result>>
    /\ AnaFrame

ValidateAnalysis ==
    /\ a_pc = "twin_parsed"
    /\ a_result' = validate_analysis_text(AnalysisText(a_choice, a_format))
    /\ a_pc' = "done"
    /\ UNCHANGED <<a_sections, a_twin_sections>>
    /\ AnaFrame

AnalysisNext == ParseAnalysis \/ ParseTwin \/ ValidateAnalysis

SpecAnalysis == AnalysisInit /\ [][AnalysisNext]_vars

\* ------------------------------------------------------------------------
\* Specification SpecDetect: detect_content_type applied to a URL and a page
\* ------------------------------------------------------------------------
DetectInit ==
    /\ d_pc = "input"
    /\ d_url \in [domain : Domains, path : Paths]
    /\ d_soup \in {NoSoup} \cup [present : {TRUE}, price : BOOLEAN,
                                  code_blocks : 0..MaxCodeBlocks]
    /\ d_type = None
    /\ TitleIdle /\ NotifyIdle /\ TokenIdle /\ WebIdle /\ VidIdle /\ SanIdle /\ AnaIdle
    /\ RssIdle /\ ExtraIdle

Detect ==
    /\ d_pc = "input"
    /\ d_type' = detect_content_type(d_url, d_soup)
    /\ d_pc' = "done"
    /\ UNCHANGED <<titleVars, notifyVars, tokenVars, webVars, vidVars, sanVars, anaVars,
                   rssVars, extraVars, d_url, d_soup>>

SpecDetect == DetectInit /\ [][Detect]_vars

\* ------------------------------------------------------------------------
\* Specification SpecRss: find_episode_in_rss applied to a feed
\* ------------------------------------------------------------------------
\* SequenceMatcher ratios of the titles, in hundredths
Similarities == {20, 49, 50, 100}
\* none, '45:00', '0:45', '0:47:00', a word, 'abc:10'
Durations == {<<>>, <<45, 0>>, <<0, 45>>, <<0, 47, 0>>, <<Unknown>>, <<Unknown, 10>>}
\* where the entry's audio is: an enclosure, a link, or nowhere
Entries == [similarity : Similarities, duration : Durations,
            audio : {"none", "enclosure", "link"}]

RssInit ==
    /\ r_pc = "input"
    /\ r_feed \in UNION {[1..n -> Entries] : n \in 0..MaxEntries}
    /\ r_duration \in {Unknown, 1, 45, 50}
    /\ r_result = NoMatch
    /\ TitleIdle /\ NotifyIdle /\ TokenIdle /\ WebIdle /\ VidIdle
    /\ SanIdle /\ AnaIdle /\ DetIdle /\ ExtraIdle

FindEpisode ==
    /\ r_pc = "input"
    /\ r_result' = find_episode_in_rss(r_feed, r_duration)
    /\ r_pc' = "done"
    /\ UNCHANGED <<titleVars, notifyVars, tokenVars, webVars, vidVars, sanVars, anaVars,
                   detVars, extraVars, r_feed, r_duration>>

SpecRss == RssInit /\ [][FindEpisode]_vars

\* ------------------------------------------------------------------------
\* Specification SpecQuality: the two checks of shared/title_utils.py applied
\* to a title
\* ------------------------------------------------------------------------
QualityInit ==
    /\ q_pc = "input"
    /\ q_title \in TitleTexts
    /\ q_quality = NoQuality /\ q_validation = NoTitleValidation
    /\ TitleIdle /\ NotifyIdle /\ TokenIdle /\ WebIdle /\ VidIdle
    /\ SanIdle /\ AnaIdle /\ DetIdle /\ RssIdle /\ ScrIdle

QualFrame == UNCHANGED <<titleVars, notifyVars, tokenVars, webVars, vidVars, sanVars,
                         anaVars, detVars, rssVars, scrVars, q_title>>

ScoreQuality ==
    /\ q_pc = "input"
    /\ q_quality' = validate_title_quality(q_title)
    /\ q_pc' = "scored"
    /\ UNCHANGED q_validation
    /\ QualFrame

ValidateTitle ==
    /\ q_pc = "scored"
    /\ q_validation' = validate_title(q_title)
    /\ q_pc' = "done"
    /\ UNCHANGED q_quality
    /\ QualFrame

QualityNext == ScoreQuality \/ ValidateTitle

SpecQuality == QualityInit /\ [][QualityNext]_vars

\* ------------------------------------------------------------------------
\* Specification SpecSearch: the yt-dlp search of search_youtube_for_podcast
\* applied to a list of results
\* ------------------------------------------------------------------------
SearchInit ==
    /\ c_pc = "input"
    /\ c_entries \in UNION {[1..n -> Candidates] : n \in 0..MaxCandidates}
    /\ c_url = NoCandidate
    /\ TitleIdle /\ NotifyIdle /\ TokenIdle /\ WebIdle /\ VidIdle
    /\ SanIdle /\ AnaIdle /\ DetIdle /\ RssIdle /\ QualIdle

PickSearchResult ==
    /\ c_pc = "input"
    /\ c_url' = PickEntry(c_entries)
    /\ c_pc' = "done"
    /\ UNCHANGED <<titleVars, notifyVars, tokenVars, webVars, vidVars, sanVars, anaVars,
                   detVars, rssVars, qualVars, c_entries>>

SpecSearch == SearchInit /\ [][PickSearchResult]_vars

\* ------------------------------------------------------------------------
\* Specification SpecNotify: is_error applied to every bounded response
\* ------------------------------------------------------------------------
ErrorEntries == [stage : {"ai_analysis", "transcription", "fetch"},
                 recoverable : {"true", "false", "absent"}]
ErrorArrays == UNION {[1..n -> ErrorEntries] : n \in 0..MaxErrors}
StatusCodes == {200, 399, 400, 404}
Responses ==
    {r \in [has_error : BOOLEAN, has_errors : BOOLEAN, errors : ErrorArrays,
            title : {None, "", "T"}, type : VALID_TYPES \cup {"unknown", None}] :
        ~r.has_errors => r.errors = <<>>}

NotifyInit ==
    /\ n_pc = "input"
    /\ n_response \in Responses
    /\ n_status \in StatusCodes
    /\ n_notify = FALSE
    /\ TitleIdle /\ TokenIdle /\ WebIdle /\ VidIdle /\ PureIdle

Classify ==
    /\ n_pc = "input"
    /\ n_notify' = is_error(n_response, n_status)
    /\ n_pc' = "done"
    /\ UNCHANGED <<n_response, n_status, titleVars, tokenVars, webVars, vidVars, pureVars>>

NotifyNext == Classify

SpecNotify == NotifyInit /\ [][NotifyNext]_vars

\* ------------------------------------------------------------------------
\* Specification SpecToken: threads calling get_spotify_access_token
\* ------------------------------------------------------------------------
TokenInit ==
    /\ spotify_token_cache = EmptyCache
    /\ k_pc = [t \in Threads |-> "idle"]
    /\ k_local = [t \in Threads |-> NoLocal]
    /\ k_now = 0
    /\ k_creds \in BOOLEAN
    /\ k_issued = 0
    /\ k_calls = 0
    /\ k_exp_owner = NoToken
    /\ TitleIdle /\ NotifyIdle /\ WebIdle /\ VidIdle /\ PureIdle

TokFrame == UNCHANGED <<titleVars, notifyVars, webVars, vidVars, pureVars, k_creds>>

\* a thread enters the function
TokCall(t) ==
    /\ k_pc[t] \in {"idle", "done"}
    /\ k_calls < MaxCalls
    /\ k_calls' = k_calls + 1
    /\ k_pc' = [k_pc EXCEPT ![t] = "check_token"]
    /\ k_local' = [k_local EXCEPT ![t] = NoLocal]
    /\ UNCHANGED <<spotify_token_cache, k_now, k_issued, k_exp_owner>>
    /\ TokFrame

\* line 54, left operand: _spotify_token_cache['token'] is truthy
TokCheckToken(t) ==
    /\ k_pc[t] = "check_token"
    /\ k_pc' = [k_pc EXCEPT ![t] =
                  IF spotify_token_cache.token # NoToken THEN "read_clock"
                  ELSE "check_creds"]
    /\ UNCHANGED <<spotify_token_cache, k_local, k_now, k_issued, k_calls, k_exp_owner>>
    /\ TokFrame

\* line 54, right operand: the call of time.time(), whose value the
\* comparison keeps while the clock and the other threads move on
TokReadClock(t) ==
    /\ k_pc[t] = "read_clock"
    /\ k_local' = [k_local EXCEPT ![t].clock = k_now]
    /\ k_pc' = [k_pc EXCEPT ![t] = "check_expiry"]
    /\ UNCHANGED <<spotify_token_cache, k_now, k_issued, k_calls, k_exp_owner>>
    /\ TokFrame

\* line 54, right operand: the read of _spotify_token_cache['expires_at'],
\* compared with the clock value read before
TokCheckExpiry(t) ==
    /\ k_pc[t] = "check_expiry"
    /\ IF k_local[t].clock < spotify_token_cache.expires_at
       THEN /\ k_pc' = [k_pc EXCEPT ![t] = "return_cached"]
            /\ k_local' = [k_local EXCEPT ![t].seen_owner = k_exp_owner]
       ELSE /\ k_pc' = [k_pc EXCEPT ![t] = "check_creds"]
            /\ UNCHANGED k_local
    /\ UNCHANGED <<spotify_token_cache, k_now, k_issued, k_calls, k_exp_owner>>
    /\ TokFrame

\* line 55: return _spotify_token_cache['token']
TokReturnCached(t) ==
    /\ k_pc[t] = "return_cached"
    /\ k_local' = [k_local EXCEPT ![t].returned = spotify_token_cache.token,
                                  ![t].from_cache = TRUE]
    /\ k_pc' = [k_pc EXCEPT ![t] = "done"]
    /\ UNCHANGED <<spotify_token_cache, k_now, k_issued, k_calls, k_exp_owner>>
    /\ TokFrame

\* lines 57-58: no credentials, return None
TokCheckCreds(t) ==
    /\ k_pc[t] = "check_creds"
    /\ k_pc' = [k_pc EXCEPT ![t] = IF k_creds THEN "post" ELSE "done"]
    /\ UNCHANGED <<spotify_token_cache, k_local, k_now, k_issued, k_calls, k_exp_owner>>
    /\ TokFrame

\* lines 65-75: the auth request answers with a fresh token
TokPostOk(t) ==
    /\ k_pc[t] = "post"
    /\ \E ttl \in ExpiresInChoices :
          k_local' = [k_local EXCEPT ![t].data_token = k_issued + 1,
                                     ![t].expires_in = ttl]
    /\ k_issued' = k_issued + 1
    /\ k_pc' = [k_pc EXCEPT ![t] = "store_token"]
    /\ UNCHANGED <<spotify_token_cache, k_now, k_calls, k_exp_owner>>
    /\ TokFrame

\* the same failure, with the cache cleared before None is returned
TokPostFail_clears_cache(t) ==
    /\ k_pc[t] = "post"
    /\ k_pc' = [k_pc EXCEPT ![t] = "done"]
    /\ spotify_token_cache' = EmptyCache
    /\ UNCHANGED <<k_local, k_now, k_issued, k_calls, k_exp_owner>>
    /\ TokFrame

\* lines 65-75 and 82-84: the auth request fails, return None
TokPostFail(t) ==
    /\ k_pc[t] = "post"
    /\ k_pc' = [k_pc EXCEPT ![t] = "done"]
    /\ UNCHANGED <<spotify_token_cache, k_local, k_now, k_issued, k_calls, k_exp_owner>>
    /\ TokFrame

\* line 78: _spotify_token_cache['token'] = data['access_token']
TokStoreToken(t) ==
    /\ k_pc[t] = "store_token"
    /\ spotify_token_cache' = [spotify_token_cache EXCEPT !.token = k_local[t].data_token]
    /\ k_pc' = [k_pc EXCEPT ![t] = "expiry_clock"]
    /\ UNCHANGED <<k_local, k_now, k_issued, k_calls, k_exp_owner>>
    /\ TokFrame

\* line 79, right-hand side: the call of time.time(), evaluated before the
\* cache is written
TokExpiryClock(t) ==
    /\ k_pc[t] = "expiry_clock"
    /\ k_local' = [k_local EXCEPT ![t].clock = k_now]
    /\ k_pc' = [k_pc EXCEPT ![t] = "store_expiry"]
    /\ UNCHANGED <<spotify_token_cache, k_now, k_issued, k_calls, k_exp_owner>>
    /\ TokFrame

\* line 79: _spotify_token_cache['expires_at'] = <clock read> + expires_in - 60
\* line 81: return data['access_token']
TokStoreExpiry(t) ==
    /\ k_pc[t] = "store_expiry"
    /\ spotify_token_cache' = [spotify_token_cache EXCEPT
                                 !.expires_at = k_local[t].clock + k_local[t].expires_in
                                                - TOKEN_BUFFER]
    /\ k_exp_owner' = k_local[t].data_token
    /\ k_local' = [k_local EXCEPT ![t].returned = k_local[t].data_token]
    /\ k_pc' = [k_pc EXCEPT ![t] = "done"]
    /\ UNCHANGED <<k_now, k_issued, k_calls>>
    /\ TokFrame

\* the clock advances
Tick ==
    /\ k_now < MaxTicks * TOKEN_BUFFER
    /\ k_now' = k_now + TOKEN_BUFFER
    /\ UNCHANGED <<spotify_token_cache, k_pc, k_local, k_issued, k_calls, k_exp_owner>>
    /\ TokFrame

TokenNext ==
    \/ \E t \in Threads :
          \/ TokCall(t) \/ TokCheckToken(t) \/ TokReadClock(t) \/ TokCheckExpiry(t)
          \/ TokReturnCached(t) \/ TokCheckCreds(t) \/ TokPostOk(t) \/ TokPostFail(t)
          \/ TokStoreToken(t) \/ TokExpiryClock(t) \/ TokStoreExpiry(t)
    \/ Tick

SpecToken == TokenInit /\ [][TokenNext]_vars

\* ------------------------------------------------------------------------
\* Specification SpecPipeline: one invocation of an enricher entry point.
\* Every external call is one step whose outcome is chosen freely.
\* ------------------------------------------------------------------------
\* an entry of the call history
Call(stage, outcome) == [stage |-> stage, outcome |-> outcome]

WebRequests == [method : {"OPTIONS", "POST"},
                url : {"missing", "malformed", "episode", "episode_no_id", "page"},
                skip_ai : BOOLEAN]

WebInit ==
    /\ w_pc = "start"
    /\ w_req \in WebRequests
    /\ w_gemini_key \in BOOLEAN
    /\ w_spotify = NoSpotify /\ w_ai_error = FALSE
    /\ w_transcription = None /\ w_transcription_error = None /\ w_page = NoPage
    /\ w_calls = <<>> /\ w_response = NoWebResponse /\ w_notify = FALSE

WebFrame == UNCHANGED <<titleVars, notifyVars, tokenVars, vidVars, pureVars, w_req,
                        w_gemini_key>>

WebReturn(response) ==
    /\ w_response' = response
    /\ w_pc' = "done"

\* lines 663-692: preflight, request validation, routing
WebStart ==
    /\ w_pc = "start"
    /\ IF w_req.method = "OPTIONS" THEN WebReturn(preflight_response)
       ELSE IF w_req.url = "missing" THEN WebReturn(bad_request_response)
       ELSE IF w_req.url = "malformed" THEN WebReturn(crash_response)
       ELSE /\ w_pc' = IF w_req.url \in {"episode", "episode_no_id"}
                       THEN "extract_id" ELSE "fetch"
            /\ UNCHANGED w_response
    /\ UNCHANGED <<w_spotify, w_ai_error, w_transcription, w_transcription_error,
                   w_page, w_calls, w_notify>>
    /\ WebFrame

\* lines 97-99: extract_spotify_episode_id
WebExtractId ==
    /\ w_pc = "extract_id"
    /\ w_pc' = IF w_req.url = "episode" THEN "token" ELSE "fetch"
    /\ UNCHANGED <<w_spotify, w_ai_error, w_transcription, w_transcription_error,
                   w_page, w_calls, w_response, w_notify>>
    /\ WebFrame

\* line 101: the handler's thread enters get_spotify_access_token; the
\* function's steps are those of SpecToken, taken by this thread while the
\* clock and another request of the same process move on; the handler runs
\* in thread t1, the other request in thread t2
WebGetToken ==
    /\ w_pc = "token"
    /\ k_pc["t1"] \in {"idle", "done"}
    /\ k_calls < MaxCalls
    /\ k_calls' = k_calls + 1
    /\ k_pc' = [k_pc EXCEPT !["t1"] = "check_token"]
    /\ k_local' = [k_local EXCEPT !["t1"] = NoLocal]
    /\ w_pc' = "token_wait"
    /\ UNCHANGED <<w_spotify, w_ai_error, w_transcription, w_transcription_error,
                   w_page, w_calls, w_response, w_notify>>
    /\ UNCHANGED <<titleVars, notifyVars, vidVars, pureVars, w_req, w_gemini_key,
                   spotify_token_cache, k_now, k_creds, k_issued, k_exp_owner>>

\* lines 101-104: get_spotify_access_token returned; without a token go to
\* oEmbed
WebTokenReturned ==
    /\ w_pc = "token_wait"
    /\ k_pc["t1"] = "done"
    /\ LET token == k_local["t1"].returned IN
          /\ w_pc' = IF token = NoToken THEN "oembed" ELSE "spotify_api"
          /\ w_calls' = Append(w_calls,
                               Call("token", IF token = NoToken THEN "none" ELSE "ok"))
    /\ UNCHANGED <<w_spotify, w_ai_error, w_transcription, w_transcription_error,
                   w_page, w_response, w_notify>>
    /\ WebFrame

\* the steps of get_spotify_access_token taken while the handler is inside
\* it: its own, and those of one other request that calls the function
WebTokenSteps ==
    /\ w_pc = "token_wait"
    /\ \/ \E t \in Threads :
             \/ TokCheckToken(t) \/ TokReadClock(t) \/ TokCheckExpiry(t)
             \/ TokReturnCached(t) \/ TokCheckCreds(t) \/ TokPostOk(t)
             \/ TokPostFail(t) \/ TokStoreToken(t) \/ TokExpiryClock(t)
             \/ TokStoreExpiry(t)
       \/ TokCall("t2")
       \/ k_now < MaxHandlerTicks * TOKEN_BUFFER /\ Tick

\* lines 106-137: the Spotify Web API answers
WebSpotifyApiOk ==
    /\ w_pc = "spotify_api"
    /\ \E title \in TitleValues, show_name \in {None, "S"}, extra \in BOOLEAN :
          w_spotify' = [success |-> TRUE, title |-> title, show_name |-> show_name,
                        extra |-> extra, source |-> "api"]
    /\ w_calls' = Append(w_calls, Call("spotify_api", "ok"))
    /\ w_pc' = "spotify_ai"
    /\ UNCHANGED <<w_ai_error, w_transcription, w_transcription_error,
                   w_page, w_response, w_notify>>
    /\ WebFrame

\* lines 138-141: an HTTP error status ends fetch_spotify_episode in failure
WebSpotifyApiHttpError ==
    /\ w_pc = "spotify_api"
    /\ w_spotify' = NoSpotify
    /\ w_calls' = Append(w_calls, Call("spotify_api", "http_error"))
    /\ w_pc' = "fetch"
    /\ UNCHANGED <<w_ai_error, w_transcription, w_transcription_error,
                   w_page, w_response, w_notify>>
    /\ WebFrame

\* A variant in which any other exception ends the chain in failure too.
WebSpotifyApiException_no_fallback ==
    /\ w_pc = "spotify_api"
    /\ w_spotify' = NoSpotify
    /\ w_calls' = Append(w_calls, Call("spotify_api", "exception"))
    /\ w_pc' = "fetch"
    /\ UNCHANGED <<w_ai_error, w_transcription, w_transcription_error,
                   w_page, w_response, w_notify>>
    /\ WebFrame

\* lines 142-145: any other exception falls back to oEmbed
WebSpotifyApiException ==
    /\ w_pc = "spotify_api"
    /\ w_calls' = Append(w_calls, Call("spotify_api", "exception"))
    /\ w_pc' = "oembed"
    /\ UNCHANGED <<w_spotify, w_ai_error, w_transcription, w_transcription_error,
                   w_page, w_response, w_notify>>
    /\ WebFrame

\* lines 148-164: fetch_spotify_oembed
WebOEmbed ==
    /\ w_pc = "oembed"
    /\ \/ /\ \E title \in TitleValues :
                w_spotify' = [success |-> TRUE, title |-> title, show_name |-> None,
                              extra |-> FALSE, source |-> "oembed"]
          /\ w_pc' = "spotify_ai"
          /\ w_calls' = Append(w_calls, Call("oembed", "ok"))
       \/ /\ w_spotify' = NoSpotify
          /\ w_pc' = "fetch"
          /\ w_calls' = Append(w_calls, Call("oembed", "failed"))
    /\ UNCHANGED <<w_ai_error, w_transcription, w_transcription_error,
                   w_page, w_response, w_notify>>
    /\ WebFrame

\* lines 695-755: the podcast AI analysis, then the gate of the transcript chain
WebSpotifyAi ==
    /\ w_pc = "spotify_ai"
    /\ LET content_for_ai == Truthy(w_spotify.title) \/ w_spotify.show_name # None
                             \/ w_spotify.extra
       IN  IF ~w_req.skip_ai /\ w_gemini_key /\ content_for_ai
           THEN /\ w_ai_error' \in BOOLEAN
                /\ w_calls' = Append(w_calls, Call("ai", "called"))
           ELSE /\ w_ai_error' = FALSE
                /\ UNCHANGED w_calls
    /\ w_pc' = IF w_spotify.show_name # None /\ Truthy(w_spotify.title)
               THEN "itunes" ELSE "spotify_respond"
    /\ UNCHANGED <<w_spotify, w_transcription, w_transcription_error,
                   w_page, w_response, w_notify>>
    /\ WebFrame

\* lines 757-759 and 777-778: search_podcast_itunes
WebItunes ==
    /\ w_pc = "itunes"
    /\ \E outcome \in {"ok", "no_feed_url", "failed"} :
          IF outcome = "ok"
          THEN w_pc' = "rss" /\ UNCHANGED w_transcription_error
          ELSE w_pc' = "spotify_respond" /\ w_transcription_error' = "RSS feed not found"
    /\ w_calls' = Append(w_calls, Call("itunes", "called"))
    /\ UNCHANGED <<w_spotify, w_ai_error, w_transcription, w_page, w_response, w_notify>>
    /\ WebFrame

\* lines 761-767 and 775-776: find_episode_in_rss
WebFindEpisode ==
    /\ w_pc = "rss"
    /\ \E found \in BOOLEAN :
          IF found
          THEN w_pc' = "transcribe" /\ UNCHANGED w_transcription_error
          ELSE /\ w_pc' = "spotify_respond"
               /\ w_transcription_error' = "Episode not found in RSS"
    /\ w_calls' = Append(w_calls, Call("rss", "called"))
    /\ UNCHANGED <<w_spotify, w_ai_error, w_transcription, w_page, w_response, w_notify>>
    /\ WebFrame

\* lines 769-774: transcribe_audio_url
WebTranscribe ==
    /\ w_pc = "transcribe"
    /\ \/ /\ \E text \in {"text", ""} : w_transcription' = text
          /\ UNCHANGED w_transcription_error
       \/ /\ w_transcription_error' = "Transcription failed"
          /\ UNCHANGED w_transcription
    /\ w_calls' = Append(w_calls, Call("transcribe", "called"))
    /\ w_pc' = "spotify_respond"
    /\ UNCHANGED <<w_spotify, w_ai_error, w_page, w_response, w_notify>>
    /\ WebFrame

\* lines 780-814
WebSpotifyRespond ==
    /\ w_pc = "spotify_respond"
    /\ WebReturn(spotify_response(w_spotify, w_ai_error, w_transcription,
                                  w_transcription_error))
    /\ UNCHANGED <<w_spotify, w_ai_error, w_transcription, w_transcription_error,
                   w_page, w_calls, w_notify>>
    /\ WebFrame

\* lines 817-828: fetch_webpage
WebFetch ==
    /\ w_pc = "fetch"
    /\ \/ /\ w_page' = [w_page EXCEPT !.fetch = "ok"]
          /\ w_pc' = "parse"
          /\ UNCHANGED w_response
       \/ \E failure \in FETCH_FAILURES :
             /\ w_page' = [w_page EXCEPT !.fetch = failure]
             /\ WebReturn(fetch_error_response(failure))
    /\ w_calls' = Append(w_calls, Call("fetch", "called"))
    /\ UNCHANGED <<w_spotify, w_ai_error, w_transcription, w_transcription_error,
                   w_notify>>
    /\ WebFrame

\* lines 831-849: parse, detect the type, extract the metadata; an episode
\* URL that fell through matches PODCAST_PATTERNS, unless its domain matches
\* VIDEO_PATTERNS first
WebParse ==
    /\ w_pc = "parse"
    /\ \E content_type \in DETECTED_TYPES, meta_title \in TitleValues :
          /\ w_req.url \in {"episode", "episode_no_id"} =>
                content_type \in {"video", "podcast"}
          /\ w_page' = [w_page EXCEPT !.type = content_type, !.meta_title = meta_title]
    /\ w_pc' = "page_ai"
    /\ UNCHANGED <<w_spotify, w_ai_error, w_transcription, w_transcription_error,
                   w_calls, w_response, w_notify>>
    /\ WebFrame

\* lines 885-892: an extraction step raises
WebParseCrash ==
    /\ w_pc = "parse"
    /\ WebReturn(crash_response)
    /\ UNCHANGED <<w_spotify, w_ai_error, w_transcription, w_transcription_error,
                   w_page, w_calls, w_notify>>
    /\ WebFrame

\* lines 851-883: generate_ai_analysis, then the page record
WebPageRespond ==
    /\ w_pc = "page_ai"
    /\ \E ai \in {"skipped", "no_key", "insufficient", "exception", "ok_title",
                  "ok_long_title", "ok_no_title"} :
          /\ (ai = "skipped") = w_req.skip_ai
          /\ ~w_req.skip_ai => ((ai = "no_key") = ~w_gemini_key)
          /\ w_page' = [w_page EXCEPT !.ai = ai]
          /\ w_ai_error' = (ai \in {"no_key", "insufficient", "exception"})
          /\ w_calls' = IF ai \in {"exception", "ok_title", "ok_long_title",
                                   "ok_no_title"}
                        THEN Append(w_calls, Call("ai", "called")) ELSE w_calls
          /\ WebReturn(page_response(w_page.type, w_page.meta_title, ai))
    /\ UNCHANGED <<w_spotify, w_transcription, w_transcription_error, w_notify>>
    /\ WebFrame

\* the notifier inspects the JSON body and the status
WebNotify ==
    /\ w_pc = "done"
    /\ w_response.body = "record"
    /\ w_notify' = is_error(w_response, w_response.status)
    /\ w_pc' = "notified"
    /\ UNCHANGED <<w_spotify, w_ai_error, w_transcription, w_transcription_error,
                   w_page, w_calls, w_response>>
    /\ WebFrame

WebNext ==
    \/ WebStart \/ WebExtractId \/ WebGetToken \/ WebTokenSteps \/ WebTokenReturned
    \/ WebSpotifyApiOk \/ WebSpotifyApiHttpError \/ WebSpotifyApiException
    \/ WebOEmbed \/ WebSpotifyAi \/ WebItunes \/ WebFindEpisode \/ WebTranscribe
    \/ WebSpotifyRespond \/ WebFetch \/ WebParse \/ WebParseCrash \/ WebPageRespond
    \/ WebNotify

\* ---- download_and_store ----
\* the URLs of a request: none, an unreadable body, a Spotify episode, a
\* Spotify episode whose URL also holds the word tiktok, a TikTok video, any
\* other video
\* line 45: 'spotify.com/episode' in url.lower()
is_spotify_podcast(url) == url \in {"spotify", "spotify_tiktok"}

\* line 241: 'tiktok' in url.lower()
MentionsTikTok(url) == url \in {"tiktok", "spotify_tiktok"}

\* the same routing, with the TikTok test made first
download_video_tiktok_first(url) ==
    IF MentionsTikTok(url) THEN "tt_ytdlp"
    ELSE IF is_spotify_podcast(url) THEN "sp_meta"
    ELSE "ytdlp"

\* lines 239-244: download_video; the chain the URL is handed to
download_video(url) ==
    IF is_spotify_podcast(url) THEN "sp_meta"
    ELSE IF MentionsTikTok(url) THEN "tt_ytdlp"
    ELSE "ytdlp"

VidRequests == [method : {"OPTIONS", "POST"},
                url : {"missing", "malformed", "spotify", "spotify_tiktok", "tiktok",
                       "other"},
                extract_audio : BOOLEAN, transcribe_audio : BOOLEAN,
                analyze_video : BOOLEAN]

VidInit ==
    /\ v_pc = "start"
    /\ v_req \in VidRequests
    /\ v_search = NoSearch /\ v_attempts = <<>> /\ v_carried = <<>>
    /\ v_info = NoInfo /\ v_transcription = NoTranscription /\ v_gemini = NoGemini
    /\ v_response = NoWebResponse

VidFrame == UNCHANGED <<titleVars, notifyVars, tokenVars, webVars, pureVars, v_req>>

VidReturn(response) ==
    /\ v_response' = response
    /\ v_pc' = "done"

\* lines 764-767: an exception reaches the handler
VidRaise(message) == VidReturn(video_crash_response(message))

\* where the handler goes once the video is stored (lines 715, 740, 748)
AfterUpload == IF v_req.extract_audio THEN "audio"
               ELSE IF v_req.analyze_video THEN "gemini" ELSE "validate"
AfterAudio == IF v_req.analyze_video THEN "gemini" ELSE "validate"

\* lines 646-679 and 239-244: preflight, request parsing, source detection
VidStart ==
    /\ v_pc = "start"
    /\ IF v_req.method = "OPTIONS" THEN VidReturn(video_preflight_response)
       ELSE IF v_req.url = "malformed" THEN VidRaise("request body")
       ELSE IF v_req.url = "missing" THEN VidReturn(video_bad_request_response)
       ELSE /\ v_pc' = download_video(v_req.url)
            /\ UNCHANGED v_response
    /\ UNCHANGED <<v_search, v_attempts, v_carried, v_info, v_transcription, v_gemini>>
    /\ VidFrame

\* lines 190-192: get_spotify_metadata; a failure is raised with its error
VidSpotifyMeta ==
    /\ v_pc = "sp_meta"
    /\ \E ok \in BOOLEAN :
          /\ v_attempts' = Append(v_attempts, Attempt("spotify_oembed", ok))
          /\ IF ok
             THEN /\ v_pc' = "sp_search_api"
                  /\ v_search' = [round |-> 1]
                  /\ UNCHANGED <<v_carried, v_response>>
             ELSE /\ v_carried' = <<Attempt("spotify_oembed", FALSE)>>
                  /\ VidRaise("Failed to get Spotify metadata")
                  /\ UNCHANGED v_search
    /\ UNCHANGED <<v_info, v_transcription, v_gemini>>
    /\ VidFrame

\* the same search, with the yt-dlp search run whatever the API returned
VidSearchApi_scrapes_anyway ==
    /\ v_pc = "sp_search_api"
    /\ \E found \in BOOLEAN :
          /\ v_attempts' = Append(v_attempts, Attempt("youtube_api", found))
          /\ v_pc' = "sp_search_ytdlp"
    /\ UNCHANGED <<v_search, v_carried, v_info, v_transcription, v_gemini, v_response>>
    /\ VidFrame

\* lines 123-125 and 67-98: search_youtube_with_api; every failure is None
VidSearchApi ==
    /\ v_pc = "sp_search_api"
    /\ \E found \in BOOLEAN :
          /\ v_attempts' = Append(v_attempts, Attempt("youtube_api", found))
          /\ v_pc' = IF found THEN "sp_download" ELSE "sp_search_ytdlp"
    /\ UNCHANGED <<v_search, v_carried, v_info, v_transcription, v_gemini, v_response>>
    /\ VidFrame

\* lines 127-176, 200-207 and 228-231: the yt-dlp search; every failure is
\* None; after the second round the chain gives up
VidSearchYtdlp ==
    /\ v_pc = "sp_search_ytdlp"
    /\ \E found \in BOOLEAN :
          /\ v_attempts' = Append(v_attempts, Attempt("ytdlp_search", found))
          /\ IF found
             THEN v_pc' = "sp_download" /\ UNCHANGED <<v_search, v_carried, v_response>>
             ELSE IF v_search.round = 1
             THEN /\ v_pc' = "sp_search_api"
                  /\ v_search' = [round |-> 2]
                  /\ UNCHANGED <<v_carried, v_response>>
             ELSE /\ v_carried' = <<>>
                  /\ VidRaise("Could not find on YouTube")
                  /\ UNCHANGED v_search
    /\ UNCHANGED <<v_info, v_transcription, v_gemini>>
    /\ VidFrame

\* lines 207-227: download_with_ytdlp of the video found
VidSpotifyDownload ==
    /\ v_pc = "sp_download"
    /\ \E outcome \in {"ok", "bot_detection", "failed"} :
          /\ v_attempts' = Append(v_attempts, Attempt("youtube_download", outcome = "ok"))
          /\ IF outcome = "ok"
             THEN /\ \E title \in DownloadedTitles :
                        v_info' = [source |-> "spotify_via_youtube",
                                   download_method |-> None, title |-> title]
                  /\ v_carried' = <<>>
                  /\ v_pc' = "upload"
                  /\ UNCHANGED v_response
             ELSE /\ v_carried' = <<Attempt("youtube_download", FALSE)>>
                  /\ VidRaise(IF outcome = "bot_detection"
                              THEN "YouTube download blocked by bot detection"
                              ELSE "download error")
                  /\ UNCHANGED v_info
    /\ UNCHANGED <<v_search, v_transcription, v_gemini>>
    /\ VidFrame

\* lines 251-261: download_tiktok_with_ytdlp; a failure is printed
VidTikTokYtdlp ==
    /\ v_pc = "tt_ytdlp"
    /\ \E ok \in BOOLEAN :
          /\ v_attempts' = Append(v_attempts, Attempt("tiktok_ytdlp", ok))
          /\ IF ok
             THEN /\ \E raw \in TitleValues :
                        v_info' = [source |-> "tiktok", download_method |-> "yt-dlp",
                                   title |-> tiktok_title(raw)]
                  /\ v_pc' = "upload"
             ELSE /\ v_pc' = "tt_rapidapi"
                  /\ UNCHANGED v_info
    /\ UNCHANGED <<v_search, v_carried, v_transcription, v_gemini, v_response>>
    /\ VidFrame

\* lines 263-264: download_tiktok_with_rapidapi; its exception propagates
VidTikTokRapidApi ==
    /\ v_pc = "tt_rapidapi"
    /\ \E ok \in BOOLEAN :
          /\ v_attempts' = Append(v_attempts, Attempt("tiktok_rapidapi", ok))
          /\ IF ok
             THEN /\ \E title \in DownloadedTitles :
                        v_info' = [source |-> "tiktok", download_method |-> "rapidapi",
                                   title |-> title]
                  /\ v_carried' = <<>>
                  /\ v_pc' = "upload"
                  /\ UNCHANGED v_response
             ELSE /\ v_carried' = <<Attempt("tiktok_rapidapi", FALSE)>>
                  /\ VidRaise("RapidAPI error")
                  /\ UNCHANGED v_info
    /\ UNCHANGED <<v_search, v_transcription, v_gemini>>
    /\ VidFrame

\* lines 243-244: download_with_ytdlp for every other source
VidYtdlp ==
    /\ v_pc = "ytdlp"
    /\ \/ /\ \E source \in {"youtube", "other"}, title \in DownloadedTitles :
                v_info' = [source |-> source, download_method |-> None, title |-> title]
          /\ v_attempts' = Append(v_attempts, Attempt("ytdlp", TRUE))
          /\ v_carried' = <<>>
          /\ v_pc' = "upload"
          /\ UNCHANGED v_response
       \/ /\ v_attempts' = Append(v_attempts, Attempt("ytdlp", FALSE))
          /\ v_carried' = <<Attempt("ytdlp", FALSE)>>
          /\ VidRaise("download error")
          /\ UNCHANGED v_info
    /\ UNCHANGED <<v_search, v_transcription, v_gemini>>
    /\ VidFrame

\* lines 682-694: name the file and upload_to_gcs; an exception propagates
VidUpload ==
    /\ v_pc = "upload"
    /\ \/ v_pc' = AfterUpload /\ UNCHANGED v_response
       \/ VidRaise("upload error")
    /\ UNCHANGED <<v_search, v_attempts, v_carried, v_info, v_transcription, v_gemini>>
    /\ VidFrame

\* the same stage, with the transcription run on a path that is None
VidExtractAudio_transcribes_anyway ==
    /\ v_pc = "audio"
    /\ \/ /\ \E audio_path \in {"path", None} :
                v_pc' = IF audio_path # None THEN "audio_upload"
                        ELSE IF v_req.transcribe_audio THEN "transcribe" ELSE AfterAudio
          /\ UNCHANGED v_response
       \/ VidRaise("ffmpeg could not be run")
    /\ UNCHANGED <<v_search, v_attempts, v_carried, v_info, v_transcription, v_gemini>>
    /\ VidFrame

\* lines 716-717 and 428-442: extract_audio returns the path, or None when
\* ffmpeg exits with an error (CalledProcessError); any other exception of
\* subprocess.run, such as a missing ffmpeg, propagates to the handler
VidExtractAudio ==
    /\ v_pc = "audio"
    /\ \/ /\ \E audio_path \in {"path", None} :
                v_pc' = IF audio_path = None THEN AfterAudio ELSE "audio_upload"
          /\ UNCHANGED v_response
       \/ VidRaise("ffmpeg could not be run")
    /\ UNCHANGED <<v_search, v_attempts, v_carried, v_info, v_transcription, v_gemini>>
    /\ VidFrame

\* lines 718-732: upload the audio; an exception propagates
VidAudioUpload ==
    /\ v_pc = "audio_upload"
    /\ \/ /\ v_pc' = IF v_req.transcribe_audio THEN "transcribe" ELSE AfterAudio
          /\ UNCHANGED v_response
       \/ VidRaise("upload error")
    /\ UNCHANGED <<v_search, v_attempts, v_carried, v_info, v_transcription, v_gemini>>
    /\ VidFrame

\* lines 733-737 and 445-501: transcribe_audio never raises
VidTranscribe ==
    /\ v_pc = "transcribe"
    /\ v_transcription' \in TranscriptionResults
    /\ v_pc' = AfterAudio
    /\ UNCHANGED <<v_search, v_attempts, v_carried, v_info, v_gemini, v_response>>
    /\ VidFrame

\* lines 740-745 and 550-639: analyze_video_with_gemini never raises
VidGemini ==
    /\ v_pc = "gemini"
    /\ v_gemini' \in GeminiResults
    /\ v_pc' = "validate"
    /\ UNCHANGED <<v_search, v_attempts, v_carried, v_info, v_transcription, v_response>>
    /\ VidFrame

\* lines 747-762: validate, extend the errors array, return the record
VidValidate ==
    /\ v_pc = "validate"
    /\ VidReturn(video_response(v_gemini, v_transcription))
    /\ UNCHANGED <<v_search, v_attempts, v_carried, v_info, v_transcription, v_gemini>>
    /\ VidFrame

VidNext ==
    \/ VidStart \/ VidSpotifyMeta \/ VidSearchApi \/ VidSearchYtdlp \/ VidSpotifyDownload
    \/ VidTikTokYtdlp \/ VidTikTokRapidApi \/ VidYtdlp
    \/ VidUpload \/ VidExtractAudio \/ VidAudioUpload \/ VidTranscribe \/ VidGemini
    \/ VidValidate

\* one request to one of the two entry points
\* the token cache an invocation of enrich_webpage finds: empty, or written
\* by an earlier invocation at time 0 and still valid or expired by now; no
\* thread is inside get_spotify_access_token, and two invocations are left:
\* the handler's and one of another request
PipelineTokenInit ==
    /\ k_pc = [t \in Threads |-> "idle"]
    /\ k_local = [t \in Threads |-> NoLocal]
    /\ k_calls = MaxCalls - 2
    /\ k_creds \in BOOLEAN
    /\ \/ /\ spotify_token_cache = EmptyCache
          /\ k_now = 0 /\ k_issued = 0 /\ k_exp_owner = NoToken
       \/ /\ k_creds
          /\ \E ttl \in ExpiresInChoices :
                spotify_token_cache = [token |-> 1, expires_at |-> ttl - TOKEN_BUFFER]
          /\ k_now \in {0, 2 * TOKEN_BUFFER}
          /\ k_issued = 1 /\ k_exp_owner = 1

PipelineInit ==
    /\ \/ WebInit /\ VidIdle /\ PipelineTokenInit
       \/ WebIdle /\ VidInit /\ TokenIdle
    /\ TitleIdle /\ NotifyIdle /\ PureIdle

PipelineNext == WebNext \/ VidNext

SpecPipeline == PipelineInit /\ [][PipelineNext]_vars

\* ------------------------------------------------------------------------
\* Properties
\* ------------------------------------------------------------------------

\* C1: the notification decision is true exactly when the status is >= 400,
\* or the record has a singular error field, or its errors array holds an
\* entry with stage transcription or recoverable false, or the title is
\* absent or empty, or the type is not one of the seven known values.  In
\* particular 404 always notifies, and an errors array holding only
\* recoverable non-transcription entries does not notify when title and type
\* are valid.
NotifyConditions(r, status) ==
    \/ status >= 400
    \/ r.has_error
    \/ r.has_errors /\ \E i \in 1..Len(r.errors) :
          r.errors[i].stage = "transcription" \/ r.errors[i].recoverable = "false"
    \/ r.title = None \/ r.title = ""
    \/ r.type \notin {"article", "video", "podcast", "product", "code", "social", "document"}

OnlyBenignErrors(r) ==
    /\ ~r.has_error /\ r.has_errors /\ r.errors # <<>>
    /\ \A i \in 1..Len(r.errors) :
          r.errors[i].stage # "transcription" /\ r.errors[i].recoverable = "true"
    /\ r.title = "T" /\ r.type \in VALID_TYPES

C1_NotifyRule ==
    n_pc = "done" =>
        /\ n_notify = NotifyConditions(n_response, n_status)
        /\ (n_status = 404 => n_notify)
        /\ (n_status < 400 /\ OnlyBenignErrors(n_response) => ~n_notify)
        /\ (n_response.type = "unknown" => n_notify)

C1_Witness ==
    /\ n_pc = "done" /\ n_status = 200 /\ OnlyBenignErrors(n_response)
    /\ Len(n_response.errors) = 2 /\ ~n_notify

\* ---- the responses of the two entry points ----
Returned == {w_response, v_response}
WebReturned == w_pc \in {"done", "notified"}

\* every failure a record reports: the singular error, then the errors array
FailureEntries(r) == (IF r.has_error THEN <<r.error>> ELSE <<>>) \o r.errors

AiOnlyFailure(r) ==
    /\ r.status = 200 /\ Truthy(r.title) /\ r.type \in VALID_TYPES
    /\ FailureEntries(r) # <<>>
    /\ \A i \in DOMAIN FailureEntries(r) : FailureEntries(r)[i].stage = "ai_analysis"

CarriesTranscriptionFailure(r) ==
    \E i \in DOMAIN FailureEntries(r) : FailureEntries(r)[i].stage = "transcription"

\* C2 as claimed: a record of the webpage enricher whose only failure is an
\* AI analysis failure never notifies, on the podcast path and on the page
\* path alike, and a record carrying a transcription failure always notifies.
C2_AiOnlySilentOnBothPaths ==
    w_pc = "notified" =>
        /\ (AiOnlyFailure(w_response) => ~w_notify)
        /\ (CarriesTranscriptionFailure(w_response) => w_notify)

\* C2 as amended: an AI-only failure record of the podcast path does not
\* notify; on the page path the AI failure is reported in the singular error
\* field and the record notifies; a record carrying a transcription failure
\* (only the podcast path emits one) always notifies.
C2_NotifyByPath ==
    w_pc = "notified" =>
        /\ (AiOnlyFailure(w_response) => w_response.path \in {"spotify", "page"})
        /\ (AiOnlyFailure(w_response) /\ w_response.path = "spotify" =>
               ~w_notify /\ ~w_response.has_error)
        /\ (AiOnlyFailure(w_response) /\ w_response.path = "page" =>
               w_notify /\ w_response.has_error)
        /\ (CarriesTranscriptionFailure(w_response) =>
               w_notify /\ w_response.path = "spotify")

C2_Witness ==
    /\ w_pc = "notified" /\ w_response.path = "page"
    /\ AiOnlyFailure(w_response) /\ w_page.ai = "exception" /\ w_notify

\* C3 as claimed: a singular error field appears only together with a status
\* of 400 or more; a status-200 response never carries one.
C3_ErrorOnlyWithFailureStatus ==
    \A r \in Returned : r.has_error => r.status >= 400

\* C3 as amended: every response with a status of 400 or more carries the
\* singular error field; below 400 it appears only with status 200 on the
\* generic page path of the webpage enricher, as a recoverable object of
\* stage fetch (no record) or of stage ai_analysis (beside the record).  The
\* podcast path and the video enricher never pair it with status 200.
C3_ErrorFieldStatus ==
    \A r \in Returned :
        /\ (r.body = "record" /\ r.status >= 400 => r.has_error)
        /\ (r.has_error /\ r.status < 400 =>
               /\ r.status = 200
               /\ r.path \in {"fetch_error", "page"}
               /\ r.error.kind = "object" /\ r.error.recoverable = "true"
               /\ r.error.stage = IF r.path = "page" THEN "ai_analysis" ELSE "fetch")

C3_Witness ==
    /\ w_pc = "done" /\ w_response.status = 200 /\ w_response.has_error
    /\ w_response.error.stage = "fetch" /\ w_page.fetch = "timeout"

\* C4: every entry of a response's errors array, of either enricher, is an
\* object with the fields stage, message and recoverable, its stage one of
\* fetch, processing, ai_analysis, transcription, download, metadata, upload.
C4_ErrorEntriesAreObjects ==
    \A r \in Returned : \A i \in DOMAIN r.errors :
        /\ r.errors[i].kind = "object"
        /\ r.errors[i].stage \in ERROR_STAGES
        /\ r.errors[i].message # None
        /\ r.errors[i].recoverable \in {"true", "false"}

\* C5: on the podcast path, whenever the metadata was resolved and no
\* transcript was obtained, the handler returns a status-200 record of type
\* podcast whose errors array holds a recoverable transcription entry.
C5_MissingTranscriptReported ==
    WebReturned /\ w_spotify.success /\ w_transcription = None =>
        /\ w_response.status = 200 /\ w_response.type = "podcast"
        /\ \E i \in DOMAIN w_response.errors :
              /\ w_response.errors[i].stage = "transcription"
              /\ w_response.errors[i].recoverable = "true"

\* ---- the podcast metadata chain, read off the call history ----
HasCall(stage, outcome) == \E i \in DOMAIN w_calls : w_calls[i] = Call(stage, outcome)
Called(stage) == \E i \in DOMAIN w_calls : w_calls[i].stage = stage
\* fetch_spotify_episode has returned for an extractable episode id
ChainReturned == Called("token") /\ w_pc \notin {"spotify_api", "oembed"}
PrimaryFailed ==
    \/ HasCall("token", "none")
    \/ HasCall("spotify_api", "http_error") \/ HasCall("spotify_api", "exception")

\* C6 as claimed: whenever the primary stage fails, for any reason, oEmbed is
\* attempted; metadata failure is reported only after oEmbed failed; oEmbed
\* is never called after a primary success.
C6_OEmbedAfterAnyPrimaryFailure ==
    ChainReturned =>
        /\ (PrimaryFailed => Called("oembed"))
        /\ (~w_spotify.success => HasCall("oembed", "failed"))
        /\ (HasCall("spotify_api", "ok") => ~Called("oembed"))

\* C6 as amended: oEmbed is attempted, as the next stage, exactly when no
\* token is available or the primary request raises something other than an
\* HTTP error status; an HTTP error status ends the chain in metadata failure
\* without oEmbed; otherwise failure is reported only after oEmbed failed;
\* oEmbed is never called after a primary success.
C6_OEmbedFallbackRule ==
    ChainReturned =>
        /\ Called("oembed") <=>
              (HasCall("token", "none") \/ HasCall("spotify_api", "exception"))
        /\ \A i \in DOMAIN w_calls : w_calls[i].stage = "oembed" =>
              /\ i > 1
              /\ w_calls[i - 1] \in {Call("token", "none"),
                                     Call("spotify_api", "exception")}
        /\ (HasCall("spotify_api", "http_error") =>
               ~Called("oembed") /\ ~w_spotify.success)
        /\ (~w_spotify.success =>
               HasCall("oembed", "failed") \/ HasCall("spotify_api", "http_error"))
        /\ (HasCall("spotify_api", "ok") =>
               ~Called("oembed") /\ w_spotify.source = "api")

C6_Witness ==
    /\ ChainReturned /\ HasCall("spotify_api", "exception")
    /\ HasCall("oembed", "ok") /\ w_spotify.source = "oembed"

\* ---- the download chain of the video enricher ----
ChainEnded ==
    /\ v_attempts # <<>>
    /\ v_pc \notin {"sp_search_api", "sp_search_ytdlp", "sp_download", "tt_rapidapi"}
ChainFailed == ChainEnded /\ v_info = NoInfo

\* C8: a resolution chain keeps the ordered trace of all its attempts: a
\* failure carries every attempt made, and a success still retains the
\* earlier failed attempts.
C8_TraceRetained ==
    ChainEnded =>
        IF ChainFailed
        THEN v_carried = v_attempts
        ELSE \A i \in DOMAIN v_attempts : ~v_attempts[i].ok =>
                \E j \in DOMAIN v_carried : v_carried[j] = v_attempts[i]

\* C7: a token returned from the cache is always paired with its own expiry:
\* the expires_at value the reader compared the clock with was written by
\* the invocation that obtained the token the reader returns.
C7_TokenPairedWithOwnExpiry ==
    \A t \in Threads :
        k_pc[t] = "done" /\ k_local[t].from_cache =>
            k_local[t].returned = k_local[t].seen_owner

\* C9: for every title S and limit L, the first component of
\* truncate_title(S, L) is at most L characters long.
C9_ResultWithinLimit ==
    t_pc = "done" => Len(t_result.title) <= t_max

\* C10 as claimed: when the collapsed title is longer than max_length and has
\* a space at or before index max_length, the title is cut at the last such
\* space, so a word ending exactly at position max_length is kept.
LastSpaceUpTo(s, k) == RFind(SubSeq(s, 1, Min(k + 1, Len(s))), " ")

C10_CutAtOrBeforeLimit ==
    LET c == CollapseWhitespace(t_title) IN
    t_pc = "done" /\ Len(c) > t_max /\ LastSpaceUpTo(c, t_max) # -1 =>
        /\ t_result.was_truncated
        /\ t_result.title = RStrip(SubSeq(c, 1, LastSpaceUpTo(c, t_max)))

\* C10 as amended: the cut is at the last space strictly before index
\* max_length.  The result is the longest prefix of complete words that is
\* followed by a space and fits in max_length - 1 characters; when the first
\* max_length characters hold no space the word rule does not apply and the
\* result ends in the ellipsis.
IsWordPrefix(p, c) ==
    /\ Len(p) < Len(c)
    /\ p = SubSeq(c, 1, Len(p))
    /\ c[Len(p) + 1] = " "

C10_CutStrictlyBeforeLimit ==
    LET c == CollapseWhitespace(t_title)
        fits == {n \in 0..(t_max - 1) : IsWordPrefix(SubSeq(c, 1, n), c)}
    IN  t_pc = "done" /\ Len(c) > t_max =>
            /\ t_result.was_truncated
            /\ IF fits # {}
               THEN /\ Len(t_result.title) \in fits
                    /\ t_result.title = SubSeq(c, 1, Len(t_result.title))
                    /\ \A n \in fits : n <= Len(t_result.title)
               ELSE /\ Len(t_result.title) >= 3
                    /\ SubSeq(t_result.title, Len(t_result.title) - 2,
                              Len(t_result.title)) = Ellipsis

\* a title whose word ends exactly at position max_length loses that word
C10_Witness ==
    LET c == CollapseWhitespace(t_title) IN
    /\ t_pc = "done" /\ Len(c) > t_max /\ t_max >= 3
    /\ c[t_max + 1] = " "
    /\ \E i \in 1..t_max : c[i] = " "
    /\ t_result.was_truncated
    /\ Len(t_result.title) < t_max - 1

\* C11: truncate_title never splits a word: the result is the collapsed
\* title, or the collapsed title cut exactly at a space, or, only when the
\* whole collapsed title is one token without a space, a space-free prefix
\* followed by the ellipsis.
HasSpace(s) == \E i \in 1..Len(s) : s[i] = " "
EndsInEllipsis(r) ==
    Len(r) >= 3 /\ SubSeq(r, Len(r) - 2, Len(r)) = Ellipsis

C11_NeverSplitsWord ==
    LET c == CollapseWhitespace(t_title)
        r == t_result.title
    IN  t_pc = "done" =>
            \/ r = c
            \/ IsWordPrefix(r, c) /\ r # <<>> /\ r[Len(r)] # " "
            \/ /\ ~HasSpace(c) /\ ~HasSpace(r) /\ EndsInEllipsis(r)
               /\ Len(r) - 3 <= Len(c)
               /\ SubSeq(r, 1, Len(r) - 3) = SubSeq(c, 1, Len(r) - 3)

\* C12: sanitize_title is idempotent: sanitising a sanitised title changes
\* nothing.
C12_SanitizeIdempotent ==
    s_pc = "done" => s_twice = s_once

C12_Witness ==
    /\ s_pc = "done" /\ s_twice = s_once
    /\ s_title = <<"a", "@", "NBSP", "1">> /\ s_once = <<"a", " ", "1">>

\* C13: every title of an emitted record has passed through the title
\* normaliser, so on every path of both enrichers it has at most
\* MAX_TITLE_LENGTH characters.
C13_EmittedTitleWithinLimit ==
    /\ WebReturned /\ w_response.status = 200 => w_response.title # "LONG"
    /\ v_pc = "done" /\ v_response.status = 200 => v_info.title # "LONG"

\* C14: a required section is found by exact key, then ignoring case, then
\* by its set of words ignoring connector words, so a text whose header is
\* "Mood and Tone" (or "Style and Production") with content does not report
\* "Mood & Tone" (or "Style & Production") missing.
InSeq(x, seq) == \E i \in DOMAIN seq : seq[i] = x

C14_ConnectorWordsIgnored ==
    a_pc = "done" /\ a_format # "none" =>
        /\ a_choice[4].name = "Mood and Tone" => ~InSeq("Mood & Tone", a_result.missing)
        /\ a_choice[3].name = "Style and Production" =>
               ~InSeq("Style & Production", a_result.missing)

\* C15: a text with five required sections with content and without the
\* sixth is invalid with exactly that section missing, nothing empty and one
\* error naming it; with all six it is valid; and valid holds exactly when
\* missing and empty are both empty.
Written(i) ==
    /\ a_choice[i].name \in {REQUIRED_ANALYSIS_SECTIONS[i], Lower(REQUIRED_ANALYSIS_SECTIONS[i])}
    /\ a_choice[i].content # <<>>
LacksOnly(i) ==
    a_choice[i] = Absent /\ \A j \in SectionIndex \ {i} : Written(j)

C15_MissingExactlyOne ==
    a_pc = "done" =>
        /\ a_result.valid <=> (a_result.missing = <<>> /\ a_result.empty = <<>>)
        /\ a_format # "none" =>
            /\ \A i \in SectionIndex : LacksOnly(i) =>
                  /\ ~a_result.valid
                  /\ a_result.missing = <<REQUIRED_ANALYSIS_SECTIONS[i]>>
                  /\ a_result.empty = <<>>
                  /\ a_result.errors =
                        <<"Missing required section: " \o REQUIRED_ANALYSIS_SECTIONS[i]>>
            /\ (\A j \in SectionIndex : Written(j)) =>
                  /\ a_result.valid
                  /\ a_result.missing = <<>> /\ a_result.empty = <<>>
                  /\ a_result.errors = <<>>

C15_Witness ==
    /\ a_pc = "done" /\ a_format = "icon" /\ LacksOnly(5)
    /\ a_result.missing = <<"Key Messages">> /\ ~a_result.valid

\* C16: the icon-prefixed numbered format and the legacy colon-inline
\* format of the same content parse to the same mapping: the same keys with
\* icons stripped and the same trimmed content.
NumberedFormat == a_pc \in {"twin_parsed", "done"} /\ a_format \in {"icon", "legacy"}

C16_FormatsParseAlike ==
    NumberedFormat => a_sections = a_twin_sections

\* C16 as the parser has it: the two formats parse alike exactly when, in
\* every section, the first content line does not begin with a colon (the
\* legacy header pattern takes the colons that follow the name) and either
\* does not end in blanks or is followed by blank lines only (the legacy
\* header line is stripped on its own, the lines after an icon header only
\* as a whole); the keys are the written names in order and, in the icon
\* format, each content is the written lines, trimmed.
WrittenSections == SelectSeq(a_choice, LAMBDA section : section # Absent)
BeginsWithColon(body) == body = ":c"
EndsInBlanks(body) == body = "c_"
OnlyBlankAfterFirst(content) == \A k \in 2..Len(content) : content[k] = ""
SameInBothFormats(content) ==
    \/ content = <<>>
    \/ /\ ~BeginsWithColon(Head(content))
       /\ EndsInBlanks(Head(content)) => OnlyBlankAfterFirst(content)

C16_FormatsParseAlikeWhenTrimmed ==
    NumberedFormat =>
        /\ a_sections = a_twin_sections <=>
              \A i \in SectionIndex : SameInBothFormats(a_choice[i].content)
        /\ a_format = "icon" =>
              a_sections = [i \in DOMAIN WrittenSections |->
                               [key |-> WrittenSections[i].name,
                                content |-> StripText(WrittenSections[i].content)]]

\* a legacy text whose second section has a first line ending in blanks and
\* nothing after it, and whose sixth begins with a colon: the second parses
\* alike in both formats, the sixth does not
C16_Witness ==
    /\ NumberedFormat /\ a_format = "legacy"
    /\ a_choice[2].content = <<"c_", "">> /\ a_choice[6].content = <<":c", "c">>
    /\ a_sections[2] = a_twin_sections[2]
    /\ a_sections[2] = [key |-> "Audio Content", content |-> <<"c">>]
    /\ a_sections[6] = [key |-> "Content Category", content |-> <<"c", "c">>]
    /\ a_twin_sections[6] = [key |-> "Content Category", content |-> <<":c", "c">>]

\* C17: validate_video_enrichment validates the analysis and the
\* transcription independently and collects the errors of both: the record
\* is valid exactly when the analysis has no error and its sections validate
\* and the transcription is absent or has no error and a non-blank text; an
\* analysis error skips the section checks but not the transcription's, and
\* an absent transcription alone never makes the record invalid.
Validated == v_pc = "done" /\ v_response.status = 200
GeminiValid ==
    /\ v_gemini.present /\ ~v_gemini.error /\ v_gemini.text
    /\ \A i \in SectionIndex : v_gemini.sections[i] = "ok"
TranscriptionValid ==
    \/ ~v_transcription.present
    \/ ~v_transcription.error /\ v_transcription.text \notin {None, "", " "}
GeminiErrorKeepsTranscriptionErrors ==
    v_gemini.error =>
        Len(v_response.errors) = 1 + (IF TranscriptionValid THEN 0 ELSE 1)

C17_ValidIffBothValidate ==
    Validated =>
        /\ ~v_response.has_errors <=> (GeminiValid /\ TranscriptionValid)
        /\ GeminiErrorKeepsTranscriptionErrors
        /\ GeminiValid /\ ~v_transcription.present => v_response.errors = <<>>

\* C17 as the validator has it: the analysis, like the transcription, is
\* validated only when the record carries one.
C17_ValidIffPresentPartsValidate ==
    Validated =>
        /\ ~v_response.has_errors <=>
              ((~v_gemini.present \/ GeminiValid) /\ TranscriptionValid)
        /\ GeminiErrorKeepsTranscriptionErrors
        /\ (~v_gemini.present \/ GeminiValid) /\ ~v_transcription.present =>
              v_response.errors = <<>>

C17_Witness ==
    /\ Validated /\ v_gemini.error
    /\ v_transcription.present /\ ~v_transcription.error /\ v_transcription.text = " "
    /\ Len(v_response.errors) = 2

\* C18: the pattern tables are tried in the order video, podcast, social,
\* code, product and the first table with a pattern in the URL gives the tag
\* (host patterns in the host, podcast patterns and patterns with a path in
\* the whole URL); only when no table matches does the page decide (price or
\* cart: product, else more than three code blocks: code), and the default
\* is article. A Spotify episode URL is podcast and a Spotify album URL is not.
TableMatches(table) ==
    \E pattern \in table :
        IF table = PODCAST_PATTERNS \/ pattern = "linkedin.com/posts"
        THEN pattern \in UrlPatterns(d_url)
        ELSE pattern \in DomainPatterns(d_url.domain)
FirstMatchingTable ==
    IF TableMatches(VIDEO_PATTERNS) THEN "video"
    ELSE IF TableMatches(PODCAST_PATTERNS) THEN "podcast"
    ELSE IF TableMatches(SOCIAL_PATTERNS) THEN "social"
    ELSE IF TableMatches(CODE_PATTERNS) THEN "code"
    ELSE IF TableMatches(PRODUCT_PATTERNS) THEN "product"
    ELSE None
PageDecides ==
    IF d_soup.present /\ d_soup.price THEN "product"
    ELSE IF d_soup.present /\ d_soup.code_blocks > 3 THEN "code"
    ELSE "article"

C18_FirstMatchingTableWins ==
    d_pc = "done" =>
        /\ d_type = (IF FirstMatchingTable # None THEN FirstMatchingTable ELSE PageDecides)
        /\ d_url.domain = "open.spotify.com" =>
              (d_type = "podcast" <=> d_url.path = "/episode/abc")

\* C19: find_episode_in_rss selects the entry with the highest score of the
\* whole feed and accepts it exactly when that score is at least 0.5; a best
\* score below 0.5 is rejected, reporting the score, even for a single
\* entry; an accepted entry without an audio link still gives no success.
Scores == {EntryScore(r_feed[i], r_duration) : i \in DOMAIN r_feed}
HighestScore == CHOOSE score \in Scores : \A other \in Scores : other <= score
Searched == r_pc = "done" /\ r_feed # <<>>

C19_BestAcceptedFromThreshold ==
    Searched =>
        /\ r_result.success <=>
              \E i \in DOMAIN r_feed :
                  /\ EntryScore(r_feed[i], r_duration) = HighestScore
                  /\ \A j \in 1..(i - 1) : EntryScore(r_feed[j], r_duration) < HighestScore
                  /\ HighestScore >= MIN_SCORE
                  /\ r_feed[i].audio # "none"
                  /\ r_result.match = i /\ r_result.score = HighestScore
        /\ HighestScore < MIN_SCORE =>
              /\ r_result.error = "No matching episode found"
              /\ r_result.score = HighestScore

\* C20: an entry's score is its title similarity plus 0.2 exactly when the
\* target duration and the entry's duration are both known and differ by at
\* most 2 minutes; an entry whose duration cannot be interpreted is scored
\* on its title alone and does not keep the other entries from matching.
Interpreted(dur) == ~DurationRaises(dur) /\ entry_duration(dur) # Unknown
ClaimedScore(entry) ==
    entry.similarity
    + (IF /\ r_duration # Unknown /\ Interpreted(entry.duration)
          /\ entry_duration(entry.duration) - r_duration
                \in -DURATION_WINDOW..DURATION_WINDOW
       THEN DURATION_BOOST ELSE 0)
ClaimedScores == {ClaimedScore(r_feed[i]) : i \in DOMAIN r_feed}

C20_BoostWhenDurationsAgree ==
    Searched =>
        /\ r_result.error # "invalid literal for int()"
        /\ r_result.error \in {None, "No matching episode found"} =>
              /\ r_result.score \in ClaimedScores
              /\ \A score \in ClaimedScores : score <= r_result.score

\* C21: a fetch failure of the network layer (timeout, connection, HTTP 429,
\* HTTP 5xx) is reported recoverable, an HTTP 4xx other than 429 is reported
\* not recoverable.
C21_RecoverableByFailureKind ==
    WebReturned /\ w_response.path = "fetch_error" =>
        /\ w_response.error.stage = "fetch"
        /\ w_response.error.recoverable = "true" <=> w_page.fetch # "http_4xx"

\* C22: an unexpected exception is returned by either enricher with a status
\* of at least 400 and an error object of stage processing that is not
\* recoverable, and without any part of a record.
C22_CrashIsFatalProcessingError ==
    \A r \in Returned : r.path \in {"crash", "video_crash"} =>
        /\ r.status >= 400 /\ r.has_error
        /\ r.error.kind = "object"
        /\ r.error.stage = "processing" /\ r.error.recoverable = "false"
        /\ r.title = None /\ r.type = None /\ r.errors = <<>>

\* C23: validate_title_quality reports exactly the issues whose condition
\* holds, each once and whatever the others are; the score is 1.0 less the
\* penalty of each, kept within [0, 1]; the title is acceptable iff the score
\* is at least 0.7; an empty or blank title scores 0 with the single issue
\* "Title is empty" and is not acceptable.
C23_ScoreIsSumOfIndependentPenalties ==
    q_pc \in {"scored", "done"} =>
        IF q_title.words = <<>>
        THEN /\ q_quality.quality_score = 0
             /\ q_quality.issues = <<"Title is empty">>
             /\ ~q_quality.is_acceptable
        ELSE LET reported == {q_quality.issues[j] : j \in DOMAIN q_quality.issues} IN
             /\ \A i \in DOMAIN QualityIssues :
                    QualityIssues[i] \in reported <=> IssueHolds(QualityIssues[i], q_title)
             /\ Len(q_quality.issues) = Cardinality(reported)
             /\ q_quality.quality_score =
                    Max(0, Min(100, 100 - Penalties(q_quality.issues)))
             /\ q_quality.is_acceptable <=> q_quality.quality_score >= 70

\* one long lowercase word: no spaces, cut mid-word and garbage at once
C23_SeveralIssuesAtOnce ==
    /\ q_pc = "scored"
    /\ q_quality.issues = <<"no spaces", "cut mid-word", "garbage">>
    /\ q_quality.quality_score = 25
    /\ ~q_quality.is_acceptable

\* C24: validate_title returns valid = true iff the title is neither missing
\* or empty, nor only whitespace, nor longer than 70 characters, nor holds a
\* null byte, nor lacks an alphanumeric character.
C24_ValidIffNoErrorCondition ==
    q_pc = "done" =>
        (q_validation.valid <=>
            ~ \/ RawLen(q_title) = 0
              \/ q_title.words = <<>>
              \/ RawLen(q_title) > MAX_TITLE_LENGTH
              \/ \E i \in DOMAIN q_title.words : q_title.words[i].shape = "nul"
              \/ \A i \in DOMAIN q_title.words : q_title.words[i].shape = "punct")

PodcastChain == v_req.method = "POST" /\ is_spotify_podcast(v_req.url)
SearchSources == {"youtube_api", "ytdlp_search"}
SomeSearchFound ==
    \E i \in DOMAIN v_attempts : v_attempts[i].source \in SearchSources /\ v_attempts[i].ok

\* C25: in the podcast-as-video chain the Spotify metadata come first and
\* every search follows their success; the yt-dlp search runs only right
\* after a YouTube API search that returned nothing; a download is attempted
\* only right after a search that returned a URL and is the last stage; a
\* metadata failure fails the chain before any search; when no search returns
\* a URL the chain fails with "not found" and no download is attempted.
C25_PodcastChainOrder ==
    PodcastChain =>
        /\ \A i \in DOMAIN v_attempts :
              LET a == v_attempts[i] IN
              /\ a.source = "spotify_oembed" <=> i = 1
              /\ a.source \in SearchSources => v_attempts[1].ok
              /\ a.source = "ytdlp_search" =>
                     v_attempts[i - 1] = Attempt("youtube_api", FALSE)
              /\ a.source = "youtube_download" =>
                     /\ v_attempts[i - 1].source \in SearchSources
                     /\ v_attempts[i - 1].ok
                     /\ i = Len(v_attempts)
        /\ v_attempts # <<>> /\ ~v_attempts[1].ok =>
              /\ Len(v_attempts) = 1
              /\ v_pc = "done"
              /\ v_response = video_crash_response("Failed to get Spotify metadata")
        /\ v_pc = "done" /\ v_attempts # <<>> /\ v_attempts[1].ok /\ ~SomeSearchFound =>
              /\ v_response = video_crash_response("Could not find on YouTube")
              /\ \A i \in DOMAIN v_attempts : v_attempts[i].source # "youtube_download"

\* both rounds of both searches returned nothing
C25_NotFoundAfterBothSearches ==
    /\ PodcastChain /\ v_pc = "done"
    /\ v_attempts = <<Attempt("spotify_oembed", TRUE),
                      Attempt("youtube_api", FALSE), Attempt("ytdlp_search", FALSE),
                      Attempt("youtube_api", FALSE), Attempt("ytdlp_search", FALSE)>>
    /\ v_response.error.message = "Could not find on YouTube"

LongEntries == {i \in DOMAIN c_entries : IsLong(c_entries[i])}
AcceptableLongEntries == {i \in LongEntries : HasId(c_entries[i])}

\* C26 as claimed: the yt-dlp search returns the first entry whose duration
\* exceeds 300 s; if none does and the list is not empty it accepts the first
\* entry unconditionally, so a non-empty list always yields a URL.
C26_NonEmptyListYieldsUrl ==
    c_pc = "done" /\ c_entries # <<>> =>
        /\ c_url # NoCandidate
        /\ IF LongEntries # {}
           THEN c_url \in LongEntries /\ \A j \in LongEntries : c_url <= j
           ELSE c_url = 1

\* C26 as amended: the yt-dlp search returns the first entry that has an id
\* and whose duration exceeds 300 s; if none does and the list is not empty
\* it accepts the first entry whatever its duration, provided that entry has
\* an id; otherwise it yields no URL.
C26_FirstLongElseFirstWithId ==
    c_pc = "done" /\ c_entries # <<>> =>
        IF AcceptableLongEntries # {}
        THEN c_url \in AcceptableLongEntries /\ \A j \in AcceptableLongEntries : c_url <= j
        ELSE IF HasId(c_entries[1]) THEN c_url = 1
        ELSE c_url = NoCandidate

\* the first entry has no id, the second has one and is short: no URL
C26_FirstWithoutIdYieldsNothing ==
    /\ c_pc = "done" /\ Len(c_entries) >= 2
    /\ ~HasId(c_entries[1])
    /\ HasId(c_entries[2]) /\ ~IsLong(c_entries[2])
    /\ c_url = NoCandidate

VideoStages == {"upload", "audio", "audio_upload", "transcribe", "gemini"}

\* C27: the stages of one invocation run one at a time, each only after the
\* stage it depends on succeeded. Podcast path: the feed lookup follows
\* metadata with a show name and a title, the episode matching follows a feed
\* URL, the transcription follows an audio URL. Video pipeline: upload, audio
\* extraction, transcription and AI analysis follow a successful download, and
\* the transcription follows a successful audio extraction.
C27_StagesFollowTheirDependency ==
    [][ /\ w_pc' = "itunes" =>
              w_spotify'.show_name # None /\ Truthy(w_spotify'.title)
        /\ w_pc' = "rss" /\ w_pc # "rss" =>
              w_pc = "itunes" /\ w_transcription_error' = None
        /\ w_pc' = "transcribe" /\ w_pc # "transcribe" =>
              w_pc = "rss" /\ w_transcription_error' = None
        /\ v_pc' \in VideoStages =>
              v_info' # NoInfo /\ v_attempts'[Len(v_attempts')].ok
        /\ v_pc' = "audio_upload" /\ v_pc # "audio_upload" => v_pc = "audio"
        /\ v_pc' = "transcribe" /\ v_pc # "transcribe" => v_pc = "audio_upload"
        /\ Len(w_calls') <= Len(w_calls) + 1
        /\ Len(v_attempts') <= Len(v_attempts) + 1
      ]_vars

\* the podcast path has transcribed the audio of the episode it matched
C27_PodcastTranscribed ==
    /\ w_pc = "spotify_respond"
    /\ Called("itunes") /\ Called("rss") /\ Called("transcribe")
    /\ w_transcription = "text"

Downloading == v_req.method = "POST" /\ v_attempts # <<>>
TikTokChain == Downloading /\ ~is_spotify_podcast(v_req.url) /\ MentionsTikTok(v_req.url)

\* C28: download_video hands a Spotify episode to the podcast chain, otherwise
\* a TikTok URL to the TikTok chain, otherwise the URL to the generic tool. The
\* TikTok chain tries yt-dlp first; RapidAPI is called iff yt-dlp raised; its
\* result is returned when it succeeds; the chain raises only when both
\* failed.
C28_TikTokToolThenPaidApi ==
    /\ Downloading =>
          v_attempts[1].source =
              IF is_spotify_podcast(v_req.url) THEN "spotify_oembed"
              ELSE IF MentionsTikTok(v_req.url) THEN "tiktok_ytdlp"
              ELSE "ytdlp"
    /\ TikTokChain =>
          /\ \A i \in DOMAIN v_attempts :
                v_attempts[i].source = "tiktok_rapidapi" =>
                    i = 2 /\ ~v_attempts[1].ok
          /\ Len(v_attempts) <= 2
          /\ ~v_attempts[1].ok /\ v_pc # "tt_rapidapi" =>
                Len(v_attempts) = 2 /\ v_attempts[2].source = "tiktok_rapidapi"
          /\ Len(v_attempts) = 2 /\ v_attempts[2].ok =>
                v_info.download_method = "rapidapi"
          /\ v_attempts[1].ok => v_info.download_method = "yt-dlp"
          /\ v_response.path = "video_crash" /\ v_info = NoInfo =>
                v_attempts = <<Attempt("tiktok_ytdlp", FALSE),
                               Attempt("tiktok_rapidapi", FALSE)>>

\* yt-dlp raised and RapidAPI delivered the video
C28_PaidApiAfterToolFailure ==
    /\ TikTokChain
    /\ v_attempts = <<Attempt("tiktok_ytdlp", FALSE), Attempt("tiktok_rapidapi", TRUE)>>
    /\ v_info.download_method = "rapidapi"
    /\ v_pc = "done" /\ v_response.status = 200

\* C29: get_spotify_access_token writes the cache only after its own auth
\* request succeeded; a call that returns None (no credentials, or a failed
\* request) leaves token and expires_at as they were; a call that finds a
\* token with now < expires_at, now being the clock value the call read,
\* returns the cached token, issues no auth request and leaves the cache as
\* it was.
C29_CacheWrittenOnlyAfterAuth ==
    [][ /\ spotify_token_cache' # spotify_token_cache =>
              \E t \in Threads :
                  /\ k_pc[t] \in {"store_token", "store_expiry"}
                  /\ k_pc'[t] # k_pc[t]
                  /\ k_local[t].data_token # NoToken
        /\ \A t \in Threads :
              /\ k_pc[t] \in {"check_creds", "post"} /\ k_pc'[t] = "done" =>
                    /\ spotify_token_cache' = spotify_token_cache
                    /\ k_local'[t].returned = NoToken
                    /\ k_local[t].data_token = NoToken
              /\ k_pc[t] = "check_expiry" /\ k_pc'[t] # k_pc[t]
                 /\ k_local[t].clock < spotify_token_cache.expires_at =>
                    k_pc'[t] = "return_cached"
              /\ k_pc[t] = "return_cached" /\ k_pc'[t] = "done" =>
                    /\ spotify_token_cache' = spotify_token_cache
                    /\ k_local'[t].returned = spotify_token_cache.token
                    /\ k_local'[t].returned # NoToken
                    /\ k_issued' = k_issued
                    /\ k_local[t].data_token = NoToken
      ]_vars

\* a second call was served from the cache: one auth request for two calls
C29_ServedFromCache ==
    \E t \in Threads :
        /\ k_pc[t] = "done" /\ k_local[t].from_cache
        /\ k_local[t].returned = spotify_token_cache.token
        /\ k_issued = 1 /\ k_calls >= 2

VideoReturned == v_pc = "done" /\ v_response.path # "video_preflight"

\* C30: in every record download_and_store returns with status 200,
\* validation.valid is false iff the record has a top-level errors array,
\* which is then not empty and holds the entries of validation.errors in
\* their order, and success is true; no response of the handler carries both
\* a singular error and an errors array.
C30_ErrorsArrayMirrorsValidation ==
    VideoReturned =>
        /\ ~(v_response.has_error /\ v_response.has_errors)
        /\ v_response.status = 200 =>
              /\ v_response.validation.present
              /\ ~v_response.validation.valid <=> v_response.has_errors
              /\ v_response.has_errors =>
                    /\ v_response.errors # <<>>
                    /\ v_response.errors = video_errors(v_response.validation.errors)
              /\ ~v_response.has_errors => v_response.errors = <<>>
              /\ v_response.success = "true"

\* a record whose two validations both failed
C30_InvalidRecordWithTwoErrors ==
    /\ VideoReturned /\ v_response.status = 200
    /\ ~v_response.validation.valid
    /\ v_gemini.present /\ v_gemini.error
    /\ v_transcription.present /\ v_transcription.error
    /\ Len(v_response.validation.errors) = 2 /\ Len(v_response.errors) = 2
    /\ v_response.success = "true"

====
